---- MODULE Spec2Model ----
(***************************************************************************)
(* Model of the Polymarket BTC 15-minute trading bot: the safety ledger    *)
(* (src/safety.js, loss-count variant), the spike coordinator              *)
(* (src/botLoop.js), the HTTP control endpoints (server.js) and the        *)
(* redemption engine (redeemer, src/unnamed/part_000, second variant).     *)
(*                                                                         *)
(* JavaScript is single threaded: a handler runs without interruption up   *)
(* to its next real suspension (an await on network I/O).  Every action    *)
(* below is one such run-to-suspension segment of a handler.               *)
(*                                                                         *)
(* Units: money in cents, the clock `now` in steps of two minutes, the     *)
(* local calendar day `today` as a day number.                             *)
(***************************************************************************)
EXTENDS Integers, Sequences, FiniteSets, TLC

\* ------------------------------------------------------------------ bounds
MaxTicks == 2          \* runOnce invocations that can be in flight together
MaxDay == 1            \* last calendar day explored
MaxNow == 2            \* last clock step explored
MaxLossCalls == 7      \* recordLoss calls per day explored (ledger spec)
MaxWinCalls == 1       \* recordWin calls per day explored (ledger spec)
MaxSpecLosses == 1     \* recordLoss calls per day explored (coordinator spec)
MaxPositions == 2      \* queue candidates returned by one position scan
MaxTrades == 5          \* trade records logged by executeTrade (executor spec)
MAX_HISTORY == 3        \* samples the reference-price history keeps (600 in
                        \* krakenFeed.js, scaled down)
MaxFeedClock == 10      \* minutes of wall clock explored (feed spec)
MaxMessages == 4        \* ticker messages received (feed spec)
MaxEntries == 2        \* redemption entries (pending and history) explored
NumMarkets == 1        \* 15-minute markets explored
MaxCandidates == 3     \* slugs of one scanMarkets call that give a candidate
                       \* (5 slugs are tried in trader.js)
MaxSlotDay == 2        \* last UTC day get15MinSlotTimestamps is called on
MaxTimers == 2         \* interval timers live together

\* ------------------------------------------------------- program constants
dailyLossLimit == 1500     \* DAILY_LOSS_LIMIT default, cents
maxTradeSize == 500        \* MAX_TRADE_SIZE default, cents
maxDailyLosses == 6        \* MAX_DAILY_LOSSES default
MAX_ENTRY_PRICE == 45      \* cents
TwoMin == 1                \* 2 * 60 * 1000 ms, in clock steps
TenMin == 5                \* 10 * 60 * 1000 ms, in clock steps
SPIKE_THRESHOLD == 3000   \* dollars 30, in cents
MIN_SPIKE_SPEED == 1500   \* dollars 15 per minute, in cents per minute
StaleAfter == 1           \* 60000 ms, in minutes
BasePrice == 1000000      \* a BTC price, in thousandths of a dollar
HistoryShown == 1         \* history entries getRedemptionStatus reports (20 in
                          \* the redeemer, scaled down)

\* A raw conditionId: a 0x-prefixed 66-character hex string ("full"), a
\* shorter 0x-prefixed hex string ("short"), a decimal string ("dec"), a string
\* that is none of these ("bad"), or a missing value ("null").
Null == [form |-> "null", n |-> 0]
Bad == [form |-> "bad", n |-> 0]
Full(k) == [form |-> "full", n |-> k]
Short(k) == [form |-> "short", n |-> k]
Dec(k) == [form |-> "dec", n |-> k]
\* A tokenId: the outcome token of market m for one side, or a missing value
Token(m, side) == [m |-> m, side |-> side]
NoToken == [m |-> 0, side |-> "none"]
NoTime == -1 - TenMin      \* a missing end time (no clock value is this early)

VARIABLES
  now,                 \* wall clock (Date.now()), in two-minute steps
  today,               \* new Date().toDateString(), as a day number
  safety,              \* the SafetySystem singleton
  ret,                 \* the direct ledger call made in the step just taken
                       \* and what it returned (NoRet: none made)
  isRunning,           \* botLoop.isRunning
  loopInterval,        \* botLoop.loopInterval is set
  timers,              \* the interval timers start() created that no
                       \* clearInterval has cleared
  lastScanTime,        \* botLoop.lastScanTime, kept as the parity of the number
                       \* of ticks started (every tick stamps a new time)
  ticks,               \* runOnce invocations in flight, by slot
  lastTick,            \* what the runOnce invocation did that returned in the
                       \* step just taken (NoTick: none returned)
  tradesPlaced,        \* logger.tradeHistory: per window key, the successful
                       \* trades logged since tradedWindows was last emptied
  pendingRedemptions,  \* redeemer.pendingRedemptions
  redemptionHistory,   \* redeemer.redemptionHistory
  isChecking,          \* redeemer.isChecking
  rd,                  \* the checkAndRedeem invocation past the latch
  resolved,            \* conditionIds whose payoutDenominator is non-zero
  starter,             \* the botLoop.start() invocation in flight
  hasScannedOnStartup, \* positionScanner.hasScannedOnStartup
  statusLog,           \* the assignments to an entry's status made in the
                       \* step just taken, in order, as [from, to]
  lastRedeem,          \* what the checkAndRedeem invocation did that returned in
                       \* the step just taken (NoRedeem: none returned)
  trader,              \* trader.js: whether clobClient is set, and how many
                       \* trade records executeTrade has logged
  ex,                  \* the executeTrade invocation in flight
  lastTrade,           \* what the executeTrade invocation returned in the step
                       \* just taken (NoTrade: none returned)
  feed,                \* krakenFeed.js: latestPrice, lastUpdateTime and
                       \* priceHistory; `received` counts the ticker messages
                       \* and each sample carries its arrival number n
  feedClock,           \* Date.now() as the feed and the detector read it, in
                       \* minutes
  lastCall,            \* the call of a function without state made in the step
                       \* just taken: its name, its input and what it returned
  lastGate,            \* the entry-price gate of runOnce evaluated in the step
                       \* just taken: the tick and the mid of the chosen side
  lastDetect,          \* the detect() call made in the step just taken: the
                       \* price context it got and its answer (NoDetect: none)
  rdCalls              \* checkAndRedeem invocations: how many are past the
                       \* latch and have not returned (active); whether one
                       \* returned at the latch in the step just taken
                       \* (refused) and the pending list, the history and the
                       \* running invocation as that call found them (seen)

vars == <<now, today, safety, ret, isRunning, loopInterval, timers, lastScanTime, ticks,
          lastTick, tradesPlaced, pendingRedemptions, redemptionHistory, isChecking,
          rd, resolved, starter, hasScannedOnStartup, statusLog, lastRedeem,
          trader, ex, lastTrade, feed, feedClock,
          lastDetect, rdCalls, lastGate, lastCall>>

\* ------------------------------------------------------------ safety ledger
\* SafetySystem.constructor
SafetyInit ==
  [killSwitch |-> FALSE, dailyLoss |-> 0, dailySpent |-> 0,
   dailyTradeCount |-> 0, dailyWinCount |-> 0, dailyLossCount |-> 0,
   lastResetDate |-> 0, tradedWindows |-> {}]

\* SafetySystem.resetDailyIfNeeded: the ledger after the call made on day d
resetDailyIfNeeded(s, d) ==
  IF d # s.lastResetDate
  THEN [s EXCEPT !.dailyLoss = 0, !.dailySpent = 0, !.dailyTradeCount = 0,
                 !.dailyWinCount = 0, !.dailyLossCount = 0,
                 !.tradedWindows = {}, !.lastResetDate = d]
  ELSE s

canTradeMutant(s) ==
  IF s.killSwitch THEN [allowed |-> FALSE, reason |-> "kill_switch"]
  ELSE IF s.dailyLoss >= dailyLossLimit
       THEN [allowed |-> FALSE, reason |-> "loss_limit"]
  ELSE IF s.dailyLossCount > maxDailyLosses
       THEN [allowed |-> FALSE, reason |-> "loss_count"]
  ELSE [allowed |-> TRUE, reason |-> "ok"]

\* canTrade that does not look at the kill switch
canTradeIgnoresSwitch(s) ==
  IF s.dailyLoss >= dailyLossLimit
  THEN [allowed |-> FALSE, reason |-> "loss_limit"]
  ELSE IF s.dailyLossCount >= maxDailyLosses
       THEN [allowed |-> FALSE, reason |-> "loss_count"]
  ELSE [allowed |-> TRUE, reason |-> "ok"]

\* SafetySystem.canTrade, the checks after the reset
canTradeChecks(s) ==
  IF s.killSwitch THEN [allowed |-> FALSE, reason |-> "kill_switch"]
  ELSE IF s.dailyLoss >= dailyLossLimit
       THEN [allowed |-> FALSE, reason |-> "loss_limit"]
  ELSE IF s.dailyLossCount >= maxDailyLosses
       THEN [allowed |-> FALSE, reason |-> "loss_count"]
  ELSE [allowed |-> TRUE, reason |-> "ok"]

\* SafetySystem.canTrade: the ledger after the call and the value returned
canTrade(s, d) ==
  LET s1 == resetDailyIfNeeded(s, d)
  IN  [ledger |-> s1, result |-> canTradeChecks(s1)]

\* SafetySystem.getWindowKey: UTC YYYYMMDD_HHMM of the end time; a clock step
\* is a whole number of minutes, so distinct end times give distinct keys
getWindowKey(endTime) ==
  IF endTime = NoTime THEN [known |-> FALSE, minute |-> 0]
  ELSE [known |-> TRUE, minute |-> endTime]

\* SafetySystem.hasTraded
hasTraded(s, coin, windowKey) == <<coin, windowKey>> \in s.tradedWindows

\* SafetySystem.markTraded
markTraded(s, coin, windowKey) ==
  [s EXCEPT !.tradedWindows = @ \cup {<<coin, windowKey>>}]

\* getTradeSize with the sizes of HIGH and of every other confidence exchanged
getTradeSizeMutant(s, d, confidence) ==
  [ledger |-> resetDailyIfNeeded(s, d),
   size |-> IF confidence = "MEDIUM" THEN maxTradeSize \div 2
            ELSE IF confidence = "HIGH" THEN 0
            ELSE maxTradeSize]

\* SafetySystem.getTradeSize: the ledger after the call and the size returned
getTradeSize(s, d, confidence) ==
  LET s1 == resetDailyIfNeeded(s, d)
      size == IF confidence = "MEDIUM" THEN maxTradeSize \div 2
              ELSE IF confidence = "HIGH" THEN maxTradeSize
              ELSE 0
  IN  [ledger |-> s1, size |-> IF size < 0 THEN 0 ELSE size]

\* SafetySystem.recordTrade
recordTrade(s, amount) ==
  [s EXCEPT !.dailyTradeCount = @ + 1,
            !.dailySpent = @ + (IF amount < 0 THEN -amount ELSE amount)]

\* SafetySystem.recordLoss: increments, then calls canTrade (which resets)
recordLoss(s, d, amount) ==
  LET s1 == [s EXCEPT !.dailyLoss = @ + (IF amount < 0 THEN -amount ELSE amount),
                      !.dailyLossCount = @ + 1]
  IN  canTrade(s1, d).ledger

\* SafetySystem.recordWin
recordWin(s, amount) == [s EXCEPT !.dailyWinCount = @ + 1]

\* SafetySystem.toggleKillSwitch
toggleKillSwitch(s) == [s EXCEPT !.killSwitch = ~@]

\* ------------------------------------------------------- redemption engine
Terminal == {"redeemed", "no_payout", "error"}

IdleRd ==
  [pc |-> "idle", owner |-> [kind |-> "none", id |-> 0], safAddr |-> FALSE,
   wcol |-> FALSE, ready |-> <<>>, i |-> 0, attempts |-> <<>>, a |-> 0,
   lastError |-> "none", txLog |-> <<>>, events |-> <<>>]

matchesMutant(r, trade) ==
  (r.conditionId # Null /\ r.conditionId = trade.conditionId)

\* the test of addPendingRedemption for an entry that matches the trade
matches(r, trade) ==
  \/ (r.conditionId # Null /\ r.conditionId = trade.conditionId)
  \/ (r.tokenId # NoToken /\ r.tokenId = trade.tokenId)

\* addPendingRedemption: the list after the call, and whether the call threw
\* (the closing log line reads trade.conditionId.substring after the push)
addPendingRedemption(list, trade) ==
  IF trade.conditionId = Null /\ trade.tokenId = NoToken
  THEN [list |-> list, threw |-> FALSE]
  ELSE IF \E k \in 1..Len(list) : matches(list[k], trade)
  THEN [list |-> list, threw |-> FALSE]
  ELSE [list |-> Append(list,
                   [conditionId |-> trade.conditionId,
                    tokenId |-> trade.tokenId,
                    negRisk |-> trade.negRisk,
                    marketEndTime |-> trade.marketEndTime,
                    status |-> "waiting"]),
        threw |-> trade.conditionId = Null]

\* formatConditionId: the 32-byte hex form, or Null when there is none
formatConditionId(rawConditionId) ==
  CASE rawConditionId.form = "null" -> Null
    [] rawConditionId.form = "full" -> rawConditionId
    [] rawConditionId.form = "short" -> Full(rawConditionId.n)
    [] rawConditionId.form = "dec" -> Full(rawConditionId.n)
    [] OTHER -> Null

\* verifyRedemptionReceipt that looks for ExecutionSuccess first
verifyRedemptionReceiptMutant(receipt, safAddr) ==
  IF ~safAddr THEN receipt.status = 1
  ELSE IF receipt.hasExecutionSuccess THEN TRUE
  ELSE FALSE

\* verifyRedemptionReceipt; the receipt lists which logs it carries
verifyRedemptionReceipt(receipt, safAddr) ==
  IF ~safAddr THEN receipt.status = 1
  ELSE IF receipt.hasExecutionFailure THEN FALSE
  ELSE IF receipt.hasExecutionSuccess /\ receipt.hasUSDCTransfer THEN TRUE
  ELSE IF receipt.hasExecutionSuccess THEN TRUE
  ELSE FALSE

\* a receipt tx.wait() can return (it throws for a reverted transaction)
Receipts ==
  [status : {1}, hasExecutionSuccess : BOOLEAN, hasExecutionFailure : BOOLEAN,
   hasUSDCTransfer : BOOLEAN]

\* checkAndRedeem, the filter that selects the ready entries (as indices)
RECURSIVE readyFrom(_, _, _)
readyFrom(list, k, t) ==
  IF k > Len(list) THEN <<>>
  ELSE (IF list[k].status = "waiting" /\ list[k].marketEndTime # NoTime
           /\ t >= list[k].marketEndTime + TwoMin
        THEN <<k>> ELSE <<>>) \o readyFrom(list, k + 1, t)

\* getRedemptionStatus, the history it reports: redemptionHistory.slice(0, 20)
getRedemptionStatus(history) ==
  SubSeq(history, 1, IF Len(history) < HistoryShown THEN Len(history)
                     ELSE HistoryShown)

\* checkAndRedeem, the removal of the completed entries
removeCompleted(list) == SelectSeq(list, LAMBDA r : r.status \notin Terminal)

\* ------------------------------------------------------ the program state
\* The handlers call one another (start -> runOnce -> checkAndRedeem), so each
\* handler segment is written as a function from program state to program state.
\* `ret` is the call made from outside in the step just taken: for a ledger
\* call its answer, for a position scan whether it ran to its end (allowed)
\* and how many queue candidates it was given (size)
NoRet == [op |-> "none", allowed |-> TRUE, size |-> 0]

\* no checkAndRedeem invocation is past the latch and none was refused
NoCalls == [active |-> 0, refused |-> FALSE, seen |-> <<>>]

\* ------------------------------------------------- reference-price feed
\* A price is a number in thousandths of a dollar, the NaN that parseFloat
\* gives for a ticker field that is missing or not a number, or null
Num(v) == [kind |-> "num", v |-> v]
NaN == [kind |-> "nan", v |-> 0]
NoPrice == [kind |-> "null", v |-> 0]
NoUpdate == -1       \* lastUpdateTime = null (no clock value is this early)

\* krakenFeed.js at load: no price, no update time, an empty history
FeedInit ==
  [latestPrice |-> NoPrice, lastUpdateTime |-> NoUpdate, priceHistory |-> <<>>,
   received |-> 0]

shiftMutant(history) ==
  IF Len(history) > MAX_HISTORY THEN SubSeq(history, 1, MAX_HISTORY)
  ELSE history

\* while (priceHistory.length > MAX_HISTORY) priceHistory.shift()
RECURSIVE shift(_)
shift(history) ==
  IF Len(history) > MAX_HISTORY THEN shift(Tail(history)) ELSE history

\* ws.on('message') for a ticker message with data, at clock time t
onTickerMessage(f, t, last) ==
  [f EXCEPT !.latestPrice = last,
            !.lastUpdateTime = t,
            !.received = @ + 1,
            !.priceHistory = shift(Append(@, [price |-> last, time |-> t,
                                             n |-> f.received + 1]))]

\* a - b on prices
minus(a, b) ==
  IF a.kind = "num" /\ b.kind = "num" THEN Num(a.v - b.v) ELSE NaN

\* Number.prototype.toFixed(2) and the parseFloat that reads it back: an
\* amount in thousandths becomes the amount in cents, rounded to the nearest
\* cent, halves away from zero
toFixed2(x) ==
  IF x.kind # "num" THEN NaN
  ELSE IF x.v >= 0 THEN Num((x.v + 5) \div 10)
  ELSE Num(-((5 - x.v) \div 10))

\* no sample is old enough: getChangeFromAgo returns null
NoChange == [present |-> FALSE, dollars |-> NaN]

\* getChangeFromAgo that leaves out a sample exactly `minutesAgo` old
getChangeFromAgoMutant(f, t, minutesAgo) ==
  LET older == SelectSeq(f.priceHistory, LAMBDA p : p.time < t - minutesAgo)
  IN  IF older = <<>> THEN NoChange
      ELSE [present |-> TRUE,
            dollars |-> toFixed2(minus(f.latestPrice, older[Len(older)].price))]

\* getChangeFromAgo: the change since the last sample at least `minutesAgo`
\* old
getChangeFromAgo(f, t, minutesAgo) ==
  LET older == SelectSeq(f.priceHistory, LAMBDA p : p.time <= t - minutesAgo)
  IN  IF older = <<>> THEN NoChange
      ELSE [present |-> TRUE,
            dollars |-> toFixed2(minus(f.latestPrice, older[Len(older)].price))]

Unavailable ==
  [available |-> FALSE, change1m |-> NoChange, change3m |-> NoChange,
   change5m |-> NoChange, change10m |-> NoChange]

\* !latestPrice
falsy(price) == price.kind # "num" \/ price.v = 0

getPriceContextMutant(f, t) ==
  IF falsy(f.latestPrice) \/ f.priceHistory = <<>> THEN Unavailable
  ELSE [available |-> TRUE,
        change1m |-> getChangeFromAgo(f, t, 1),
        change3m |-> getChangeFromAgo(f, t, 3),
        change5m |-> getChangeFromAgo(f, t, 5),
        change10m |-> getChangeFromAgo(f, t, 10)]

\* getPriceContext at clock time t
getPriceContext(f, t) ==
  IF falsy(f.latestPrice) \/ f.priceHistory = <<>> THEN Unavailable
  ELSE IF f.lastUpdateTime # NoUpdate /\ t - f.lastUpdateTime > StaleAfter
  THEN Unavailable
  ELSE [available |-> TRUE,
        change1m |-> getChangeFromAgo(f, t, 1),
        change3m |-> getChangeFromAgo(f, t, 3),
        change5m |-> getChangeFromAgo(f, t, 5),
        change10m |-> getChangeFromAgo(f, t, 10)]

\* ------------------------------------------------------------ spike detector
\* the windows of detect(), in its order, each with its length in minutes
windows(ctx) ==
  << [label |-> "1m", data |-> ctx.change1m, minutes |-> 1],
     [label |-> "3m", data |-> ctx.change3m, minutes |-> 3],
     [label |-> "5m", data |-> ctx.change5m, minutes |-> 5] >>

NoWindow == [label |-> "none", data |-> NoChange, minutes |-> 1]

\* Math.abs(parseFloat(w.data.dollars)), in cents, of a change that is a number
absMoveD(w) ==
  IF w.data.dollars.v < 0 THEN -w.data.dollars.v ELSE w.data.dollars.v

\* absMoveD / (w.seconds / 60), in cents per minute, times 15
speed(w) == absMoveD(w) * (15 \div w.minutes)

isSpikeMutant(w) ==
  /\ w.data.present
  /\ w.data.dollars.kind = "num"
  /\ absMoveD(w) >= SPIKE_THRESHOLD

\* the test of detect() for a window: there is a change to look at (a NaN
\* fails every comparison) and it reaches the threshold and the minimum speed
isSpike(w) ==
  /\ w.data.present
  /\ w.data.dollars.kind = "num"
  /\ absMoveD(w) >= SPIKE_THRESHOLD
  /\ speed(w) >= MIN_SPIKE_SPEED * 15

\* the loop of detect() over the windows from the k-th on: a window replaces
\* the best one so far only when it is strictly faster
RECURSIVE bestSpike(_, _, _)
bestSpike(ws, k, best) ==
  IF k > Len(ws) THEN best
  ELSE IF isSpike(ws[k]) /\ (best = NoWindow \/ speed(ws[k]) > speed(best))
  THEN bestSpike(ws, k + 1, ws[k])
  ELSE bestSpike(ws, k + 1, best)

NotDetected ==
  [detected |-> FALSE, window |-> "none", action |-> "none",
   confidence |-> "none"]

\* detect() on the price context ctx
detect(ctx) ==
  IF ~ctx.available THEN NotDetected
  ELSE
    LET best == bestSpike(windows(ctx), 1, NoWindow)
    IN  IF best = NoWindow THEN NotDetected
        ELSE [detected |-> TRUE, window |-> best.label,
              action |-> IF best.data.dollars.v > 0 THEN "BUY_YES" ELSE "BUY_NO",
              \* bestSpike.speed >= 30 (dollars per minute)
              confidence |-> IF speed(best) >= 3000 * 15
                             THEN "HIGH" ELSE "MEDIUM"]

\* ------------------------------------------------------------ market scanner
\* no function without state was called
NoCall == [op |-> "none", input |-> <<>>, output |-> <<>>]

\* no market is kept for the coin yet: bestPerCoin[market.coin] is undefined
NoMarket == [minutesLeft |-> -1, slot |-> 0]

\* the loop of scanMarkets over the candidates from the k-th on: the first
\* candidate is kept whatever its minutesLeft, a later one replaces the kept
\* one when it has fewer minutes left and more than 1
RECURSIVE bestPerCoin(_, _, _)
bestPerCoin(markets, k, existing) ==
  IF k > Len(markets) THEN existing
  ELSE IF \/ existing = NoMarket
          \/ /\ markets[k].minutesLeft < existing.minutesLeft
             /\ markets[k].minutesLeft > 1
  THEN bestPerCoin(markets, k + 1, markets[k])
  ELSE bestPerCoin(markets, k + 1, existing)

\* get15MinSlotTimestamps at the wall-clock time `t`, in minutes since the
\* epoch (the code returns seconds; setUTCHours zeroes seconds and
\* milliseconds). A Date is its UTC day and the minutes into it, setUTCHours
\* with hours or minutes out of range carries into the day, Math.floor is the
\* floor and JavaScript's % takes the sign of the dividend.
get15MinSlotTimestamps(t) ==
  LET rem(a, b) == IF a >= 0 THEN a % b ELSE 0 - ((0 - a) % b)
      day == t \div 1440
      totalMinutes == t % 1440
      slot(offset) ==
        LET slotMinutes == (totalMinutes \div 15) * 15 + offset * 15
            hours == rem(slotMinutes \div 60, 24)
            minutes == rem(slotMinutes, 60)
            set == day * 1440 + hours * 60 + minutes
        IN  IF slotMinutes < 0 THEN set - 1440
            ELSE IF slotMinutes >= 1440 THEN set + 1440
            ELSE set
  IN  [k \in 1..5 |-> slot(k - 3)]

\* scanMarkets once every fetch has answered: `markets` are the candidates
\* that survived, in the order of the slugs
scanMarkets(markets) ==
  LET best == bestPerCoin(markets, 1, NoMarket)
  IN  IF best # NoMarket /\ best.minutesLeft >= 3 /\ best.minutesLeft <= 12
      THEN <<best>> ELSE <<>>

\* ----------------------------------------------------------------- AI engine
getAiPredictionMutant(answer) ==
  IF answer.kind # "decision"
  THEN [action |-> "SKIP", confidence |-> "LOW"]
  ELSE
    LET a1 == IF answer.action = "BUY_UP" THEN "BUY_YES"
              ELSE IF answer.action = "BUY_DOWN" THEN "BUY_NO"
              ELSE answer.action
        a2 == IF a1 \in {"BUY_YES", "BUY_NO", "SKIP"} THEN a1 ELSE "SKIP"
        a3 == IF answer.confidence = "LOW" THEN "SKIP" ELSE a2
        c1 == IF answer.confidence \in {"LOW", "MEDIUM", "HIGH"}
              THEN answer.confidence ELSE "LOW"
    IN  [action |-> a3, confidence |-> c1]

\* getAiPrediction: `answer` is what happened to the request (no API key, an
\* HTTP error status, a body that is not JSON, a body with an error field,
\* no content, content without a JSON object, an exception) or the object
\* parsed from the content, with its action and confidence as sent
getAiPrediction(answer) ==
  IF answer.kind # "decision"
  THEN [action |-> "SKIP", confidence |-> "LOW"]
  ELSE
    LET a1 == IF answer.action = "BUY_UP" THEN "BUY_YES"
              ELSE IF answer.action = "BUY_DOWN" THEN "BUY_NO"
              ELSE answer.action
        a2 == IF a1 \in {"BUY_YES", "BUY_NO", "SKIP"} THEN a1 ELSE "SKIP"
        c1 == IF answer.confidence \in {"LOW", "MEDIUM", "HIGH"}
              THEN answer.confidence ELSE "LOW"
        a3 == IF c1 = "LOW" THEN "SKIP" ELSE a2
    IN  [action |-> a3, confidence |-> c1]

\* no runOnce invocation reached the entry-price gate
NoGate == [checked |-> FALSE, tick |-> 0, entryPrice |-> 0]

\* no detect() call was made
NoDetect == [called |-> FALSE, ctx |-> Unavailable, result |-> NotDetected]

\* no executeTrade invocation is in flight
IdleEx ==
  [pc |-> "idle", action |-> "none", tokenId |-> NoToken, size |-> 0,
   submissions |-> 0]

\* no executeTrade invocation returned
NoTrade ==
  [returned |-> "none", success |-> FALSE, result |-> "none",
   tokenId |-> NoToken, side |-> "none", size |-> 0, submissions |-> 0,
   rejected |-> FALSE, orderID |-> FALSE]

\* no checkAndRedeem invocation returned
NoRedeem == [returned |-> FALSE, events |-> <<>>, rpcError |-> <<>>]

NoTick ==
  [ran |-> FALSE, deniedAtStart |-> FALSE, logged |-> {},
   executorCalled |-> FALSE, redeemCalled |-> FALSE]

\* the state a handler segment starts from
Cur ==
  [now |-> now, today |-> today, safety |-> safety, ret |-> NoRet,
   isRunning |-> isRunning, loopInterval |-> loopInterval, timers |-> timers,
   lastScanTime |-> lastScanTime,
   ticks |-> ticks, lastTick |-> NoTick, tradesPlaced |-> tradesPlaced,
   pendingRedemptions |-> pendingRedemptions,
   redemptionHistory |-> redemptionHistory, isChecking |-> isChecking,
   rd |-> rd, resolved |-> resolved, starter |-> starter,
   hasScannedOnStartup |-> hasScannedOnStartup, statusLog |-> <<>>,
   lastRedeem |-> NoRedeem, trader |-> trader, ex |-> ex, lastTrade |-> NoTrade,
   feed |-> feed, feedClock |-> feedClock, lastDetect |-> NoDetect,
   rdCalls |-> [NoCalls EXCEPT !.active = rdCalls.active],
   lastGate |-> NoGate, lastCall |-> NoCall]

\* the step ends in state S (evaluated once)
Commit(S) ==
  \E X \in {S} :
    /\ now' = X.now
    /\ today' = X.today
    /\ safety' = X.safety
    /\ ret' = X.ret
    /\ isRunning' = X.isRunning
    /\ loopInterval' = X.loopInterval
    /\ timers' = X.timers
    /\ lastScanTime' = X.lastScanTime
    /\ ticks' = X.ticks
    /\ lastTick' = X.lastTick
    /\ tradesPlaced' = IF X.safety.lastResetDate # safety.lastResetDate
                       THEN [w \in DOMAIN X.tradesPlaced |-> 0]
                       ELSE X.tradesPlaced
    /\ pendingRedemptions' = X.pendingRedemptions
    /\ redemptionHistory' = X.redemptionHistory
    /\ isChecking' = X.isChecking
    /\ rd' = X.rd
    /\ resolved' = X.resolved
    /\ starter' = X.starter
    /\ hasScannedOnStartup' = X.hasScannedOnStartup
    /\ statusLog' = X.statusLog
    /\ lastRedeem' = X.lastRedeem
    /\ trader' = X.trader
    /\ ex' = X.ex
    /\ lastTrade' = X.lastTrade
    /\ feed' = X.feed
    /\ feedClock' = X.feedClock
    /\ lastDetect' = X.lastDetect
    /\ lastGate' = X.lastGate
    /\ lastCall' = X.lastCall
    /\ rdCalls' = X.rdCalls

\* -------------------------------------------------------------- coordinator
TickIds == 1..MaxTicks
Markets == 1..NumMarkets

\* the market record scanMarkets builds for the k-th 15-minute window
Market(k) ==
  [id |-> Full(k), endTime |-> k, yesToken |-> Token(k, "YES"),
   noToken |-> Token(k, "NO"), negRisk |-> TRUE]

IdleTick ==
  [pc |-> "idle", deniedAtStart |-> FALSE, logged |-> {},
   executorCalled |-> FALSE, redeemCalled |-> FALSE, market |-> 0,
   action |-> "none", confidence |-> "none", size |-> 0]

\* the runOnce invocation in slot t returns
tickDone(S, t) ==
  [S EXCEPT !.lastTick = [ran |-> TRUE,
                          deniedAtStart |-> S.ticks[t].deniedAtStart,
                          logged |-> S.ticks[t].logged,
                          executorCalled |-> S.ticks[t].executorCalled,
                          redeemCalled |-> S.ticks[t].redeemCalled],
            !.ticks[t] = IdleTick]

TickOwner(t) == [kind |-> "tick", id |-> t]
ScanOwner == [kind |-> "scan", id |-> 0]
StartOwner == [kind |-> "start", id |-> 0]

NoSpike == [detected |-> FALSE, action |-> "none", confidence |-> "none"]
\* the answers of spikeDetector.detect() explored: no spike, or a fast drop
\* of the BTC price (speed >= 30 gives HIGH confidence)
Spikes ==
  {NoSpike, [detected |-> TRUE, action |-> "BUY_YES", confidence |-> "HIGH"]}

InFlight(S) == {t \in TickIds : S.ticks[t].pc # "idle"}
FreeSlots(S) == TickIds \ InFlight(S)

\* checkAndRedeem up to its first suspension: the latch and the early returns
\* (WALLET_PRIVATE_KEY is configured: nothing is ever pending without it)
checkAndRedeemCallMutant(S, owner) ==
  IF S.pendingRedemptions = <<>> THEN S
  ELSE [S EXCEPT !.isChecking = TRUE,
                 !.rdCalls.active = @ + 1,
                 !.rd = [IdleRd EXCEPT !.pc = "setup", !.owner = owner]]

checkAndRedeemCall(S, owner) ==
  IF S.isChecking
  THEN [S EXCEPT !.rdCalls.refused = TRUE,
                 !.rdCalls.seen = <<S.pendingRedemptions, S.redemptionHistory,
                                    S.rd>>]
  ELSE IF S.pendingRedemptions = <<>> THEN S
  ELSE [S EXCEPT !.isChecking = TRUE,
                 !.rdCalls.active = @ + 1,
                 !.rd = [IdleRd EXCEPT !.pc = "setup", !.owner = owner]]

\* the call above went past the latch and is suspended
entered(S0, S1) == S1.isChecking /\ ~S0.isChecking

\* runOnce, the await of checkAndRedeem that ends a tick
tickRedeem(S, t) ==
  LET S1 == [S EXCEPT !.ticks[t].redeemCalled = TRUE, !.ticks[t].pc = "redeem"]
      S2 == checkAndRedeemCall(S1, TickOwner(t))
  IN  IF entered(S1, S2) THEN S2 ELSE tickDone(S2, t)

\* runOnce, a `return` in the trading part after logging `activity`
tickReturnMutant(S, t, activity) ==
  tickDone([S EXCEPT !.ticks[t].logged = @ \cup {"bot"}], t)

tickReturn(S, t, activity) ==
  tickDone([S EXCEPT !.ticks[t].logged = @ \cup {activity}], t)

\* runOnce that stops the bot when canTrade() denies
runOnceCallMutant(S, t, spike) ==
  IF ~S.isRunning THEN S
  ELSE
    LET ct == canTrade(S.safety, S.today)
        S1 == [S EXCEPT !.lastScanTime = 1 - @, !.safety = ct.ledger,
                        !.ticks[t] = IdleTick]
    IN  IF ~ct.result.allowed
        THEN [tickReturn([S1 EXCEPT !.ticks[t].deniedAtStart = TRUE], t,
                         "safety_block")
                EXCEPT !.isRunning = FALSE, !.loopInterval = FALSE,
                       !.timers = IF S.loopInterval THEN @ - 1 ELSE @]
        ELSE IF ~spike.detected
        THEN tickRedeem([S1 EXCEPT !.ticks[t].logged = {"spike_watch"}], t)
        ELSE [S1 EXCEPT !.ticks[t].pc = "scan",
                        !.ticks[t].action = spike.action,
                        !.ticks[t].confidence = spike.confidence]

\* runOnce up to its first suspension, in slot t, with the detector's answer
runOnceCall(S, t, spike) ==
  IF ~S.isRunning THEN S
  ELSE
    LET ct == canTrade(S.safety, S.today)
        S1 == [S EXCEPT !.lastScanTime = 1 - @, !.safety = ct.ledger,
                        !.ticks[t] = IdleTick]
    IN  IF ~ct.result.allowed
        THEN tickReturn([S1 EXCEPT !.ticks[t].deniedAtStart = TRUE], t,
                        "safety_block")
        ELSE IF ~spike.detected
        THEN tickRedeem([S1 EXCEPT !.ticks[t].logged = {"spike_watch"}], t)
        ELSE [S1 EXCEPT !.ticks[t].pc = "scan",
                        !.ticks[t].action = spike.action,
                        !.ticks[t].confidence = spike.confidence]

\* runOnce after scanMarkets() has returned `markets`
runOnceScanned(S, t, markets) ==
  IF markets = <<>> THEN tickReturn(S, t, "bot")
  ELSE
    LET market == Market(markets[1])
        windowKey == getWindowKey(market.endTime)
    IN  IF hasTraded(S.safety, "BTC", windowKey)
        THEN tickReturn(S, t, "skip")
        ELSE [S EXCEPT !.ticks[t].pc = "fetch", !.ticks[t].market = markets[1]]

\* runOnce after fetchFullMarketData() has returned the two mids (0: no mid),
\* up to the suspension inside executeTrade
runOnceFetchedMutant(S, t, yesMid, noMid) ==
  LET tk == S.ticks[t]
      entryPrice == IF tk.action = "BUY_YES" THEN yesMid
                    ELSE IF tk.action = "BUY_NO" THEN noMid ELSE 0
      G == [S EXCEPT !.lastGate = [checked |-> TRUE, tick |-> t,
                                   entryPrice |-> entryPrice]]
      ct == canTrade(S.safety, S.today)
      S1 == [G EXCEPT !.safety = ct.ledger]
      confidence == IF tk.confidence = "none" THEN "MEDIUM" ELSE tk.confidence
      ts == getTradeSize(S1.safety, S1.today, confidence)
      S2 == [S1 EXCEPT !.safety = ts.ledger]
  IN  IF yesMid = 0 /\ noMid = 0 THEN tickReturn(S, t, "skip")
      ELSE IF entryPrice # 0 /\ entryPrice >= MAX_ENTRY_PRICE
      THEN tickReturn(G, t, "price_block")
      ELSE IF entryPrice = 0 THEN tickReturn(G, t, "skip")
      ELSE IF ~ct.result.allowed THEN tickReturn(S1, t, "safety_block")
      ELSE IF ts.size <= 0 THEN tickReturn(S2, t, "safety_block")
      ELSE [S2 EXCEPT !.ticks[t].pc = "exec",
                      !.ticks[t].logged = @ \cup {"spike_trade"},
                      !.ticks[t].executorCalled = TRUE,
                      !.ticks[t].size = ts.size]

runOnceFetched(S, t, yesMid, noMid) ==
  LET tk == S.ticks[t]
      entryPrice == IF tk.action = "BUY_YES" THEN yesMid
                    ELSE IF tk.action = "BUY_NO" THEN noMid ELSE 0
      G == [S EXCEPT !.lastGate = [checked |-> TRUE, tick |-> t,
                                   entryPrice |-> entryPrice]]
      ct == canTrade(S.safety, S.today)
      S1 == [G EXCEPT !.safety = ct.ledger]
      confidence == IF tk.confidence = "none" THEN "MEDIUM" ELSE tk.confidence
      ts == getTradeSize(S1.safety, S1.today, confidence)
      S2 == [S1 EXCEPT !.safety = ts.ledger]
  IN  IF yesMid = 0 /\ noMid = 0 THEN tickReturn(S, t, "skip")
      ELSE IF entryPrice # 0 /\ entryPrice > MAX_ENTRY_PRICE
      THEN tickReturn(G, t, "price_block")
      ELSE IF entryPrice = 0 THEN tickReturn(G, t, "skip")
      ELSE IF ~ct.result.allowed THEN tickReturn(S1, t, "safety_block")
      ELSE IF ts.size <= 0 THEN tickReturn(S2, t, "safety_block")
      ELSE [S2 EXCEPT !.ticks[t].pc = "exec",
                      !.ticks[t].logged = @ \cup {"spike_trade"},
                      !.ticks[t].executorCalled = TRUE,
                      !.ticks[t].size = ts.size]

\* runOnce that counts the trade whatever executeTrade() returned
runOnceExecutedMutant(S, t, success) ==
  LET tk == S.ticks[t]
      windowKey == getWindowKey(Market(tk.market).endTime)
      S2 == [S EXCEPT !.safety = markTraded(recordTrade(@, tk.size), "BTC", windowKey),
                      !.ticks[t].logged = @ \cup (IF success THEN {"trade_success"}
                                                  ELSE {})]
  IN  tickRedeem(S2, t)

\* runOnce after executeTrade() has returned: the trade is in the trade log;
\* on success the ledger and the pending list are updated; then the redeemer
runOnceExecuted(S, t, success) ==
  LET tk == S.ticks[t]
      market == Market(tk.market)
      windowKey == getWindowKey(market.endTime)
      tokenId == IF tk.action = "BUY_YES" THEN market.yesToken ELSE market.noToken
      S2 == IF success
            THEN [S EXCEPT
                    !.tradesPlaced[windowKey] = @ + 1,
                    !.safety = markTraded(recordTrade(@, tk.size), "BTC", windowKey),
                    !.ticks[t].logged = @ \cup {"trade_success"},
                    !.pendingRedemptions =
                       addPendingRedemption(@,
                         [conditionId |-> market.id, tokenId |-> tokenId,
                          negRisk |-> market.negRisk,
                          marketEndTime |-> market.endTime]).list]
            ELSE S
  IN  tickRedeem(S2, t)

\* ----------------------------------------------------------- order executor
\* executeTrade up to its first suspension: null without a private key or
\* without a token id for the side of the action, else placeOrder starts and
\* awaits initClient
executeTradeCall(S, privateKey, action, marketData, tradeSize) ==
  LET isYes == action \in {"BUY_YES", "BUY_UP"}
      token == IF isYes THEN marketData.yesToken ELSE marketData.noToken
  IN  IF ~privateKey THEN [S EXCEPT !.lastTrade.returned = "null"]
      ELSE IF token = NoToken THEN [S EXCEPT !.lastTrade.returned = "null"]
      ELSE [S EXCEPT !.ex = [pc |-> "init", action |-> action, tokenId |-> token,
                             size |-> tradeSize, submissions |-> 0]]

\* executeTrade from the result of placeOrder on: the trade record is built,
\* logged and returned; `rejected` tells that the CLOB turned the order down
executeTradeReturn(S, success, rejected) ==
  [S EXCEPT !.lastTrade =
              [returned |-> "record", success |-> success,
               result |-> IF success THEN "pending" ELSE "failed",
               tokenId |-> S.ex.tokenId,
               side |-> IF S.ex.action \in {"BUY_YES", "BUY_UP"} THEN "YES" ELSE "NO",
               size |-> S.ex.size, submissions |-> S.ex.submissions,
               rejected |-> rejected, orderID |-> FALSE],
            !.trader.trades = @ + 1,
            !.ex = IdleEx]

\* placeOrder after initClient has returned: the cached client, or one made
\* with derived or newly created credentials, or null when both fail or the
\* construction throws; with a client createAndPostOrder is called
placeOrderClient(S, outcome) ==
  LET client == S.trader.clobClient \/ outcome \in {"derived", "created"}
      S1 == [S EXCEPT !.trader.clobClient = client]
  IN  IF ~client THEN executeTradeReturn(S1, FALSE, FALSE)
      ELSE [S1 EXCEPT !.ex.pc = "post", !.ex.submissions = @ + 1]

\* placeOrder after createAndPostOrder has answered: success when the response
\* carries an orderID ("orderID") or is an object that does not say
\* success: false ("accepted"); the record notes whether it carried an orderID
placeOrderResponse(S, response) ==
  IF response \in {"orderID", "accepted"}
  THEN [executeTradeReturn(S, TRUE, FALSE)
          EXCEPT !.lastTrade.orderID = response = "orderID"]
  ELSE executeTradeReturn(S, FALSE, TRUE)

\* ------------------------------------------------------------- start / stop
\* what resumes a start(): the free slot its runOnce() takes and the detector's
\* answer there
DefaultCont == [slot |-> 1, spike |-> NoSpike]

\* start() from `runOnce(); loopInterval = setInterval(...)` on
startFinish(S, cont) ==
  LET S1 == runOnceCall(S, cont.slot, cont.spike)
  IN  [S1 EXCEPT !.loopInterval = TRUE, !.timers = @ + 1, !.starter = "idle"]

\* stop(): clearInterval clears the timer loopInterval refers to, the one
\* created last
stop(S) ==
  [S EXCEPT !.isRunning = FALSE, !.loopInterval = FALSE,
            !.timers = IF S.loopInterval THEN @ - 1 ELSE @]

\* scanExistingPositions, the enqueue loop over the queue candidates; a
\* candidate without conditionId makes the loop throw
RECURSIVE enqueue(_, _, _, _)
enqueue(list, positions, k, t) ==
  IF k > Len(positions) THEN [list |-> list, threw |-> FALSE]
  ELSE
    LET added == addPendingRedemption(list,
                   [conditionId |-> positions[k].conditionId,
                    tokenId |-> positions[k].tokenId,
                    negRisk |-> positions[k].negRisk,
                    marketEndTime |-> t - TenMin])
    IN  IF added.threw \/ positions[k].conditionId = Null
        THEN [list |-> added.list, threw |-> TRUE]
        ELSE enqueue(added.list, positions, k + 1, t)

\* scanExistingPositions after the positions index has answered: `kind` is
\* "error" (a fetch threw), "empty" (no position on any wallet) or "found";
\* the state after the call, result.redeemable, and whether the call went
\* through its catch block
scanExistingPositions(S, kind, positions) ==
  IF kind # "found"
  THEN [state |-> S, redeemable |-> 0, threw |-> kind = "error"]
  ELSE
    LET q == enqueue(S.pendingRedemptions, positions, 1, S.now)
        S1 == [S EXCEPT !.pendingRedemptions = q.list]
    IN  IF q.threw THEN [state |-> S1, redeemable |-> 0, threw |-> TRUE]
        ELSE [state |-> [S1 EXCEPT !.hasScannedOnStartup = TRUE],
              redeemable |-> Len(positions), threw |-> FALSE]

\* start() up to its first suspension
startCall(S, cont) ==
  IF S.isRunning THEN S
  ELSE
    LET S1 == [S EXCEPT !.isRunning = TRUE]
    IN  IF ~S1.hasScannedOnStartup
        THEN [S1 EXCEPT !.starter = "scanning"]
        ELSE startFinish(S1, cont)

\* start() after scanExistingPositions() has returned
startScanned(S, kind, positions, cont) ==
  LET sc == scanExistingPositions(S, kind, positions)
      S1 == [sc.state EXCEPT !.ret = [op |-> "scanExistingPositions",
                                       allowed |-> ~sc.threw,
                                       size |-> IF kind = "found" THEN 1 ELSE 0]]
      S2 == checkAndRedeemCall(S1, StartOwner)
  IN  IF sc.redeemable > 0
      THEN IF entered(S1, S2) THEN [S2 EXCEPT !.starter = "redeeming"]
           ELSE startFinish(S2, cont)
      ELSE startFinish(S1, cont)

\* ------------------------------------- redemption engine, the invocation
\* what continues when the checkAndRedeem invocation returns to its caller
resume(S, cont) ==
  LET owner == S.rd.owner
      S1 == [S EXCEPT !.rd = IdleRd, !.rdCalls.active = @ - 1,
                      !.lastRedeem = [@ EXCEPT !.returned = TRUE,
                                               !.events = S.rd.events]]
  IN  IF owner.kind = "tick" THEN tickDone(S1, owner.id)
      ELSE IF owner.kind = "start" THEN startFinish(S1, cont)
      ELSE S1

\* checkAndRedeem: `if (ready.length === 0) { isChecking = false; return; }`
rdReturnEarly(S, cont) == resume([S EXCEPT !.isChecking = FALSE], cont)

rdFinishMutant(S, cont) == resume([S EXCEPT !.isChecking = FALSE], cont)

\* checkAndRedeem from the removal of the completed entries to the end
rdFinish(S, cont) ==
  resume([S EXCEPT !.pendingRedemptions = removeCompleted(@),
                   !.isChecking = FALSE], cont)

\* the invocation's record of what it did with the entry the loop is at: the
\* answers it got for it (payout_zero, payout_error, balance_zero), the
\* statuses it gave it, its copy to the history (history), the transactions
\* it submitted for it (tx). An error raised for it whose message has neither
\* `payout is zero` nor `result is empty` (rpc_error: a timeout or a 5xx of
\* the RPC endpoint is one of them, and the code tells them from no other) is
\* recorded for the step that met it only.
note(S, event) ==
  LET entry == S.pendingRedemptions[S.rd.ready[S.rd.i]].conditionId
  IN  IF event = "rpc_error"
      THEN [S EXCEPT !.lastRedeem.rpcError = Append(@, entry)]
      ELSE [S EXCEPT !.rd.events = Append(@, [entry |-> entry, event |-> event])]

\* redemption.status = status, for the entry the loop is at
setStatus(S, status) ==
  LET k == S.rd.ready[S.rd.i]
      S1 == note(S, status)
  IN  [S1 EXCEPT !.pendingRedemptions[k].status = status,
                 !.statusLog = Append(@, [from |-> S.pendingRedemptions[k].status,
                                          to |-> status])]

pushHistory(S) ==
  LET S1 == note(S, "history")
  IN  [S1 EXCEPT !.redemptionHistory =
                   Append(@, S.pendingRedemptions[S.rd.ready[S.rd.i]])]

\* the per-entry loop from the k-th ready entry up to the next suspension:
\* an entry whose conditionId cannot be formatted becomes `error` on the spot
RECURSIVE rdNextEntry(_, _, _)
rdNextEntry(S, k, cont) ==
  IF k > Len(S.rd.ready) THEN rdFinish(S, cont)
  ELSE
    LET S1 == [S EXCEPT !.rd.i = k, !.rd.a = 0, !.rd.attempts = <<>>,
                        !.rd.lastError = "none"]
        redemption == S1.pendingRedemptions[S1.rd.ready[k]]
    IN  IF formatConditionId(redemption.conditionId) = Null
        THEN rdNextEntry(setStatus(S1, "error"), k + 1, cont)
        ELSE [S1 EXCEPT !.rd.pc = "payout"]

\* after getWorkingProvider, discoverSafeAddress and getWrappedCollateral,
\* or after one of the setup statements has thrown (`new ethers.Wallet` on
\* a malformed key): the outer catch logs and `finally` clears the latch
rdSetupDone(S, threw, safAddr, wcol, cont) ==
  LET ready == readyFrom(S.pendingRedemptions, 1, S.now)
      S1 == [S EXCEPT !.rd.safAddr = safAddr, !.rd.wcol = wcol,
                      !.rd.ready = ready]
  IN  IF threw
      THEN resume([S EXCEPT !.isChecking = FALSE,
                            !.rd.events = <<[entry |-> Null, event |-> "threw"]>>],
                  cont)
      ELSE IF ready = <<>> THEN rdReturnEarly(S1, cont)
      ELSE rdNextEntry(S1, 1, cont)

beginLadderMutant(S) ==
  [S EXCEPT !.rd.attempts = (IF S.rd.wcol THEN <<"NegRiskAdapter">>
                             ELSE <<>>) \o <<"CTF">>,
            !.rd.a = 1, !.rd.lastError = "none", !.rd.txLog = <<>>,
            !.rd.pc = "submit"]

\* the entry becomes `redeeming` and the first attempt of the ladder starts
beginLadder(S) ==
  LET S1 == setStatus(S, "redeeming")
  IN  [S1 EXCEPT !.rd.attempts = (IF S.rd.wcol THEN <<"NegRiskAdapter">>
                                  ELSE <<>>) \o <<"CTF">>,
                 !.rd.a = 1, !.rd.lastError = "none", !.rd.txLog = <<>>,
                 !.rd.pc = "submit"]

hasTokenBalanceMutant(tokenId, answer) == TRUE

\* hasTokenBalance: true without a read for an entry that has no tokenId, true
\* when the balanceOf read throws, else whether the balance is positive
hasTokenBalance(tokenId, answer) ==
  IF tokenId = NoToken THEN TRUE
  ELSE IF answer = "error" THEN TRUE
  ELSE answer = "positive"

\* after hasTokenBalance() has returned
rdBalanceDone(S, hasBalance, cont) ==
  IF ~hasBalance
  THEN rdNextEntry(pushHistory(setStatus(S, "no_payout")), S.rd.i + 1, cont)
  ELSE beginLadder(S)

\* after ctf.balanceOf() has answered the read hasTokenBalance made
rdBalanceRead(S, answer, cont) ==
  LET redemption == S.pendingRedemptions[S.rd.ready[S.rd.i]]
      S1 == IF answer = "zero" THEN note(S, "balance_zero")
            ELSE IF answer = "error" THEN note(S, "rpc_error")
            ELSE S
  IN  rdBalanceDone(S1, hasTokenBalance(redemption.tokenId, answer), cont)

rdPayoutDoneMutant(S, rpcError, cont) ==
  LET redemption == S.pendingRedemptions[S.rd.ready[S.rd.i]]
      payoutNonZero == formatConditionId(redemption.conditionId) \in S.resolved
  IN  IF rpcError
      THEN rdNextEntry(setStatus(note(S, "payout_error"), "error"), S.rd.i + 1, cont)
      ELSE IF ~payoutNonZero
      THEN rdNextEntry(note(S, "payout_zero"), S.rd.i + 1, cont)
      ELSE [S EXCEPT !.rd.pc = "balance"]

\* after payoutDenominator() has returned or thrown; hasTokenBalance answers
\* true without a read for an entry that has no tokenId
rdPayoutDone(S, rpcError, cont) ==
  LET redemption == S.pendingRedemptions[S.rd.ready[S.rd.i]]
      payoutNonZero == formatConditionId(redemption.conditionId) \in S.resolved
  IN  IF rpcError THEN rdNextEntry(note(S, "payout_error"), S.rd.i + 1, cont)
      ELSE IF ~payoutNonZero
      THEN rdNextEntry(note(S, "payout_zero"), S.rd.i + 1, cont)
      ELSE IF redemption.tokenId = NoToken
      THEN rdBalanceDone(S, hasTokenBalance(NoToken, "none"), cont)
      ELSE [S EXCEPT !.rd.pc = "balance"]

\* the attempt ladder after a failed attempt: the next attempt, or, when the
\* ladder is exhausted, the classification of the last error
rdNextAttempt(S, lastError, cont) ==
  LET S1 == [S EXCEPT !.rd.lastError = lastError]
  IN  IF S1.rd.a < Len(S1.rd.attempts)
      THEN [S1 EXCEPT !.rd.a = @ + 1, !.rd.pc = "submit"]
      ELSE IF lastError = "payout_zero"
      THEN rdNextEntry(pushHistory(setStatus(S1, "no_payout")), S1.rd.i + 1, cont)
      ELSE rdNextEntry(pushHistory(setStatus(S1, "error")), S1.rd.i + 1, cont)

\* after redeemViaSafe / redeemViaEOA has returned the transaction or thrown:
\* outcome is "sent", or the class of the error message ("payout_zero" for a
\* message with `payout is zero` or `result is empty`, "other")
rdSubmitDone(S, outcome, cont) ==
  IF outcome = "sent"
  THEN [note(S, "tx") EXCEPT !.rd.pc = "wait",
                 !.rd.txLog = Append(@, [entry |-> S.rd.ready[S.rd.i],
                                         label |-> S.rd.attempts[S.rd.a],
                                         verified |-> "pending"])]
  ELSE rdNextAttempt(IF outcome = "other" THEN note(S, "rpc_error") ELSE S,
                     outcome, cont)

\* the invocation's record of the receipt tx.wait() returned: that the
\* receipt of the neg-risk attempt carries an ExecutionFailure log of the
\* proxy wallet (neg_risk_failure_log), or else that the receipt has the
\* logs that make a redemption through the proxy wallet, or the status that
\* makes a direct one, a success (receipt_ok)
receiptSeen(S, receipt) ==
  IF /\ S.rd.safAddr
     /\ receipt.hasExecutionFailure
     /\ S.rd.attempts[S.rd.a] = "NegRiskAdapter"
  THEN note(S, "neg_risk_failure_log")
  ELSE IF \/ ~S.rd.safAddr /\ receipt.status = 1
          \/ S.rd.safAddr /\ receipt.hasExecutionSuccess
                          /\ ~receipt.hasExecutionFailure
  THEN note(S, "receipt_ok")
  ELSE S

rdReceiptDoneMutant(S, receipt, cont) ==
  LET n == Len(S.rd.txLog)
      R == receiptSeen(S, receipt)
  IN  IF ~verifyRedemptionReceipt(receipt, S.rd.safAddr)
      THEN rdNextAttempt([R EXCEPT !.rd.txLog[n].verified = "no"],
                         "safe_internal", cont)
      ELSE LET S1 == pushHistory(setStatus(
                       [R EXCEPT !.rd.txLog[n].verified = "yes"], "redeemed"))
           IN  IF S1.rd.a < Len(S1.rd.attempts)
               THEN [S1 EXCEPT !.rd.a = @ + 1, !.rd.pc = "submit"]
               ELSE rdNextEntry(S1, S1.rd.i + 1, cont)

\* after tx.wait() has returned the receipt: verification, and on success the
\* entry is redeemed and the ladder is left
rdReceiptDone(S, receipt, cont) ==
  LET n == Len(S.rd.txLog)
      R == receiptSeen(S, receipt)
  IN  IF ~verifyRedemptionReceipt(receipt, S.rd.safAddr)
      THEN rdNextAttempt([R EXCEPT !.rd.txLog[n].verified = "no"],
                         "safe_internal", cont)
      ELSE rdNextEntry(pushHistory(setStatus(
                         [R EXCEPT !.rd.txLog[n].verified = "yes"], "redeemed")),
                       S.rd.i + 1, cont)

\* after tx.wait() has thrown (the transaction reverted, or an RPC error)
rdWaitThrew(S, errorClass, cont) ==
  rdNextAttempt([(IF errorClass = "other" THEN note(S, "rpc_error") ELSE S)
                   EXCEPT !.rd.txLog[Len(S.rd.txLog)].verified = "no"],
                errorClass, cont)

\* ------------------------------------------------------------ environment
CondNums == 1..(NumMarkets + 1)
\* conditionIds the positions index can report
PositionConds == {Null, Bad, Full(1), Dec(1)}
PositionTokens == {NoToken, Token(1, "YES")}
\* a queue candidate of scanExistingPositions: it has at least one identifier
PositionSet ==
  {p \in [conditionId : PositionConds, tokenId : PositionTokens,
          negRisk : {FALSE}] :
     p.conditionId # Null \/ p.tokenId # NoToken}
PositionSeqs == UNION {[1..n -> PositionSet] : n \in 0..MaxPositions}

\* the position scans explored: what the index answers, within MaxEntries
ScanAnswers ==
  {a \in [kind : {"error", "empty", "found"}, positions : PositionSeqs] :
     /\ a.kind # "found" => a.positions = <<>>
     /\ Len(pendingRedemptions) + Len(redemptionHistory) + Len(a.positions)
          <= MaxEntries}

\* the startup scans explored: an old position of a market before the first
StartupPosition ==
  [conditionId |-> Full(NumMarkets + 1), tokenId |-> Token(NumMarkets + 1, "YES"),
   negRisk |-> FALSE]
StartupAnswers ==
  {[kind |-> "error", positions |-> <<>>],
   [kind |-> "empty", positions |-> <<>>],
   [kind |-> "found", positions |-> <<StartupPosition>>]}

\* the slot the next runOnce invocation takes
NextSlot == CHOOSE t \in FreeSlots(Cur) : \A u \in FreeSlots(Cur) : t <= u
Conts == [slot : {NextSlot}, spike : Spikes]
\* a returning checkAndRedeem resumes start() only when start() called it
RdConts == IF rd.owner.kind = "start" THEN Conts ELSE {DefaultCont}
RdCanReturn ==
  rd.owner.kind = "start" => (FreeSlots(Cur) # {} /\ timers < MaxTimers)

\* mids fetchFullMarketData can report, in cents (0: none)
Mids == {0, MAX_ENTRY_PRICE - 1, MAX_ENTRY_PRICE, MAX_ENTRY_PRICE + 1}

Init ==
  /\ now = 0
  /\ today = 0
  /\ safety = SafetyInit
  /\ ret = NoRet
  /\ isRunning = FALSE
  /\ loopInterval = FALSE
  /\ timers = 0
  /\ lastScanTime = 0
  /\ ticks = [t \in TickIds |-> IdleTick]
  /\ lastTick = NoTick
  /\ tradesPlaced = [w \in {getWindowKey(Market(m).endTime) : m \in Markets} |-> 0]
  /\ pendingRedemptions = <<>>
  /\ redemptionHistory = <<>>
  /\ isChecking = FALSE
  /\ rd = IdleRd
  /\ resolved = {}
  /\ starter = "idle"
  /\ hasScannedOnStartup = FALSE
  /\ statusLog = <<>>
  /\ lastRedeem = NoRedeem
  /\ trader = [clobClient |-> FALSE, trades |-> 0]
  /\ ex = IdleEx
  /\ lastTrade = NoTrade
  /\ feed = FeedInit
  /\ feedClock = 0
  /\ lastDetect = NoDetect
  /\ lastGate = NoGate
  /\ lastCall = NoCall
  /\ rdCalls = NoCalls

\* ------------------------------------------------------------------ actions
AdvanceClock ==
  /\ now < MaxNow
  /\ Commit([Cur EXCEPT !.now = @ + 1])

Midnight ==
  /\ today < MaxDay
  /\ Commit([Cur EXCEPT !.today = @ + 1])

\* a market is resolved on-chain: its payoutDenominator becomes non-zero
ResolvePosition ==
  /\ Full(1) \notin resolved
  /\ Commit([Cur EXCEPT !.resolved = @ \cup {Full(1)}])

ResolveAny ==
  \E k \in CondNums :
    /\ Full(k) \notin resolved
    /\ Commit([Cur EXCEPT !.resolved = @ \cup {Full(k)}])

\* direct calls of the ledger's public operations
CallCanTrade ==
  /\ Commit([Cur EXCEPT !.safety = canTrade(safety, today).ledger,
                        !.ret = [op |-> "canTrade",
                                 allowed |-> canTrade(safety, today).result.allowed,
                                 size |-> 0]])

callRecordLoss(S, amount) ==
  [S EXCEPT !.safety = recordLoss(@, S.today, amount),
            !.ret = [op |-> "recordLoss", allowed |-> TRUE, size |-> 0]]

\* recordLoss(0) and recordLoss(7.50)
LedgerLoss ==
  /\ safety.dailyLossCount < MaxLossCalls
  /\ \E amount \in {0, dailyLossLimit \div 2} :
       Commit(callRecordLoss(Cur, amount))

\* recordLoss(15.00): one loss of the whole daily limit
ReconciledLoss ==
  /\ safety.dailyLossCount < MaxSpecLosses
  /\ Commit(callRecordLoss(Cur, dailyLossLimit))

CallRecordWin ==
  /\ safety.dailyWinCount < MaxWinCalls
  /\ Commit([Cur EXCEPT !.safety = recordWin(@, 0),
                        !.ret = [op |-> "recordWin", allowed |-> TRUE,
                                 size |-> 0]])

CallGetTradeSize ==
  \E confidence \in {"HIGH", "MEDIUM", "LOW"} :
    /\ Commit([Cur EXCEPT !.safety = getTradeSize(safety, today, confidence).ledger,
                          !.ret = [op |-> "getTradeSize", allowed |-> TRUE,
                                   size |-> getTradeSize(safety, today,
                                                         confidence).size],
                          !.lastCall = [op |-> "getTradeSize",
                                        input |-> <<confidence>>,
                                        output |-> <<getTradeSize(safety, today,
                                                       confidence).size>>]])

\* POST /api/killswitch
KillSwitchEndpoint ==
  /\ Commit(IF toggleKillSwitch(safety).killSwitch
            THEN stop([Cur EXCEPT !.safety = toggleKillSwitch(@),
                                  !.ret.op = "killswitch"])
            ELSE [Cur EXCEPT !.safety = toggleKillSwitch(@),
                             !.ret.op = "killswitch"])

\* POST /api/bot/start, and the botLoop.start() of the listen callback
BotStartEndpoint ==
  /\ ~safety.killSwitch
  /\ ~isRunning
  /\ starter = "idle"
  /\ FreeSlots(Cur) # {}
  /\ timers < MaxTimers
  /\ \E cont \in Conts : Commit(startCall(Cur, cont))

\* POST /api/bot/stop
BotStopEndpoint ==
  /\ isRunning \/ loopInterval
  /\ Commit(stop([Cur EXCEPT !.ret.op = "bot_stop"]))

StartScanDone ==
  /\ starter = "scanning"
  /\ FreeSlots(Cur) # {}
  /\ timers < MaxTimers
  /\ \E a \in StartupAnswers : \E cont \in Conts :
       Commit(startScanned(Cur, a.kind, a.positions, cont))

\* GET /api/redemptions: getRedemptionStatus()
RedemptionStatusEndpoint ==
  /\ Commit([Cur EXCEPT !.lastCall =
               [op |-> "getRedemptionStatus", input |-> redemptionHistory,
                output |-> getRedemptionStatus(redemptionHistory)]])

\* POST /api/scan-positions, from the answer of the positions index on
ScanPositionsEndpoint ==
  \E a \in ScanAnswers :
    LET sc == scanExistingPositions(Cur, a.kind, a.positions)
        S1 == [sc.state EXCEPT !.ret = [op |-> "scanPositions",
                                         allowed |-> sc.redeemable > 0,
                                         size |-> Len(a.positions)]]
    IN  /\ a.kind = "found"
        /\ Commit(IF sc.redeemable > 0
                  THEN checkAndRedeemCall(S1, ScanOwner)
                  ELSE S1)

\* an interval timer fires
TimerTick ==
  /\ timers > 0
  /\ isRunning
  /\ FreeSlots(Cur) # {}
  /\ \E spike \in Spikes : Commit(runOnceCall(Cur, NextSlot, spike))

\* POST /api/bot/scan-now
ScanNowEndpoint ==
  /\ ~safety.killSwitch
  /\ isRunning
  /\ FreeSlots(Cur) # {}
  /\ \E spike \in Spikes : Commit(runOnceCall(Cur, NextSlot, spike))

TickScanDone ==
  \E t \in TickIds :
    /\ ticks[t].pc = "scan"
    /\ \E markets \in {<<>>} \cup {<<k>> : k \in {m \in Markets : Market(m).endTime > now}} :
         Commit(runOnceScanned(Cur, t, markets))

TickFetchDone ==
  \E t \in TickIds :
    /\ ticks[t].pc = "fetch"
    /\ \E yesMid \in Mids, noMid \in Mids :
         Commit(runOnceFetched(Cur, t, yesMid, noMid))

TickExecDone ==
  \E t \in TickIds :
    /\ ticks[t].pc = "exec"
    /\ \E success \in BOOLEAN : Commit(runOnceExecuted(Cur, t, success))

RdSetupDone ==
  /\ rd.pc = "setup"
  /\ RdCanReturn
  /\ \E threw \in BOOLEAN, safAddr \in BOOLEAN, wcol \in BOOLEAN,
        cont \in RdConts :
       /\ threw => (~safAddr /\ ~wcol)
       /\ Commit(rdSetupDone(Cur, threw, safAddr, wcol, cont))

RdPayoutDone ==
  /\ rd.pc = "payout"
  /\ RdCanReturn
  /\ \E rpcError \in BOOLEAN, cont \in RdConts :
       Commit(rdPayoutDone(Cur, rpcError, cont))

RdBalanceDone ==
  /\ rd.pc = "balance"
  /\ RdCanReturn
  /\ \E answer \in {"zero", "positive", "error"}, cont \in RdConts :
       Commit(rdBalanceRead(Cur, answer, cont))

RdSubmitDone ==
  /\ rd.pc = "submit"
  /\ RdCanReturn
  /\ \E outcome \in {"sent", "payout_zero", "other"}, cont \in RdConts :
       Commit(rdSubmitDone(Cur, outcome, cont))

RdReceiptDone ==
  /\ rd.pc = "wait"
  /\ RdCanReturn
  /\ \E receipt \in Receipts, cont \in RdConts :
       Commit(rdReceiptDone(Cur, receipt, cont))

RdWaitThrew ==
  /\ rd.pc = "wait"
  /\ RdCanReturn
  /\ \E errorClass \in {"payout_zero", "other"}, cont \in RdConts :
       Commit(rdWaitThrew(Cur, errorClass, cont))

\* executeTrade is called with a decision, the market data and a size
ExecuteTradeCall ==
  /\ ex.pc = "idle"
  /\ trader.trades < MaxTrades
  /\ \E privateKey \in BOOLEAN, action \in {"BUY_YES", "BUY_NO"},
        yesToken \in {NoToken, Token(1, "YES")},
        noToken \in {NoToken, Token(1, "NO")},
        tradeSize \in {maxTradeSize \div 2, maxTradeSize} :
       Commit(executeTradeCall(Cur, privateKey, action,
                               [yesToken |-> yesToken, noToken |-> noToken],
                               tradeSize))

ExInitDone ==
  /\ ex.pc = "init"
  /\ \E outcome \in {"derived", "created", "refused", "threw"} :
       Commit(placeOrderClient(Cur, outcome))

ExPostDone ==
  /\ ex.pc = "post"
  /\ \E response \in {"orderID", "accepted", "rejected", "empty", "threw"} :
       Commit(placeOrderResponse(Cur, response))

\* prices a ticker message can carry, in thousandths of a dollar
Prices ==
  {Num(BasePrice), Num(BasePrice + 29995), Num(BasePrice + 45000),
   Num(BasePrice + 75000), NaN}

\* a minute passes on the clock the feed reads
FeedClockTick ==
  /\ feedClock < MaxFeedClock
  /\ Commit([Cur EXCEPT !.feedClock = @ + 1])

\* the socket delivers a ticker message
TickerMessage ==
  /\ feed.received < MaxMessages
  /\ \E last \in Prices :
       Commit([Cur EXCEPT !.feed = onTickerMessage(@, feedClock, last)])

\* detect() is called
CallDetect ==
  /\ Commit([Cur EXCEPT !.lastDetect =
               [called |-> TRUE,
                ctx |-> getPriceContext(feed, feedClock),
                result |-> detect(getPriceContext(feed, feedClock))]])

\* scanMarkets() is called and its fetches give candidates with `left`
\* minutes left, rounded (the raw value is above 0); each candidate carries
\* the position of its slug
CallScanMarkets ==
  \E left \in UNION {[1..n -> {0, 1, 2, 3, 12, 13}] : n \in 0..MaxCandidates} :
    LET markets == [k \in 1..Len(left) |-> [minutesLeft |-> left[k], slot |-> k]]
    IN  /\ Commit([Cur EXCEPT !.lastCall = [op |-> "scanMarkets",
                                            input |-> markets,
                                            output |-> scanMarkets(markets)]])

\* get15MinSlotTimestamps() is called at a wall-clock time around a UTC
\* midnight or inside the day
CallGet15MinSlotTimestamps ==
  \E day \in 1..MaxSlotDay,
     minute \in {0, 14, 15, 29, 30, 44, 720, 1409, 1410, 1425, 1439} :
    LET t == day * 1440 + minute
    IN  /\ Commit([Cur EXCEPT !.lastCall =
                                [op |-> "get15MinSlotTimestamps",
                                 input |-> <<t>>,
                                 output |-> get15MinSlotTimestamps(t)]])

\* addPendingRedemption(trade) is called with a trade that has both, one or
\* none of the identifiers
CallAddPendingRedemption ==
  /\ Len(pendingRedemptions) < MaxEntries
  /\ \E conditionId \in PositionConds, tokenId \in PositionTokens :
       LET trade == [conditionId |-> conditionId, tokenId |-> tokenId,
                     negRisk |-> FALSE, marketEndTime |-> now - TenMin]
           added == addPendingRedemption(pendingRedemptions, trade)
       IN  Commit([Cur EXCEPT !.pendingRedemptions = added.list,
                              !.lastCall = [op |-> "addPendingRedemption",
                                            input |-> <<pendingRedemptions, trade>>,
                                            output |-> <<added.list, added.threw>>]])

\* getAiPrediction() is called; the request fails in one of its ways or the
\* model answers with a JSON object ("HOLD", "low" and "absent" stand for
\* the values the code does not know and for a missing field)
CallGetAiPrediction ==
  \E kind \in {"no_key", "http_error", "bad_body", "api_error", "empty",
               "no_json", "threw", "decision"},
     action \in {"BUY_YES", "BUY_NO", "SKIP", "BUY_UP", "BUY_DOWN", "HOLD",
                 "absent"},
     confidence \in {"LOW", "MEDIUM", "HIGH", "low", "absent"} :
    LET answer == [kind |-> kind, action |-> action, confidence |-> confidence]
    IN  /\ kind # "decision" => (action = "absent" /\ confidence = "absent")
        /\ Commit([Cur EXCEPT !.lastCall = [op |-> "getAiPrediction",
                                            input |-> answer,
                                            output |-> getAiPrediction(answer)]])

\* ------------------------------------------------------------ specifications
\* the coordinator, its control endpoints and the ledger, while no market is
\* resolved: a checkAndRedeem that finds a ready entry ends after reading its
\* payoutDenominator
Next ==
  \/ Midnight
  \/ ReconciledLoss
  \/ CallGetTradeSize
  \/ KillSwitchEndpoint
  \/ BotStartEndpoint
  \/ BotStopEndpoint
  \/ StartScanDone
  \/ TimerTick
  \/ ScanNowEndpoint
  \/ TickScanDone
  \/ TickFetchDone
  \/ TickExecDone
  \/ RdSetupDone
  \/ RdPayoutDone

Spec == Init /\ [][Next]_vars

\* the safety ledger on its own
NextLedger ==
  \/ Midnight
  \/ CallCanTrade
  \/ LedgerLoss
  \/ CallRecordWin
  \/ CallGetTradeSize
  \/ KillSwitchEndpoint

SpecLedger == Init /\ [][NextLedger]_vars

\* the redemption engine on its own, fed by position scans
NextRedeem ==
  \/ ResolvePosition
  \/ RedemptionStatusEndpoint
  \/ ScanPositionsEndpoint
  \/ RdSetupDone
  \/ RdPayoutDone
  \/ RdBalanceDone
  \/ RdSubmitDone
  \/ RdReceiptDone
  \/ RdWaitThrew

SpecRedeem == Init /\ [][NextRedeem]_vars

\* the running bot while the clock advances and markets resolve: the timer
\* keeps firing and nobody stops the bot
NextFair ==
  \/ AdvanceClock
  \/ ResolveAny
  \/ ReconciledLoss
  \/ BotStartEndpoint
  \/ StartScanDone
  \/ TimerTick
  \/ TickScanDone
  \/ TickFetchDone
  \/ TickExecDone
  \/ RdSetupDone
  \/ RdPayoutDone
  \/ RdBalanceDone
  \/ RdSubmitDone
  \/ RdReceiptDone
  \/ RdWaitThrew

\* the interval timer fires without a spike being detected
QuietTick ==
  /\ timers > 0
  /\ isRunning
  /\ FreeSlots(Cur) # {}
  /\ Commit(runOnceCall(Cur, NextSlot, NoSpike))

\* payoutDenominator() answers
PayoutAnswered ==
  /\ rd.pc = "payout"
  /\ RdCanReturn
  /\ \E cont \in RdConts : Commit(rdPayoutDone(Cur, FALSE, cont))

\* a suspended start() or runOnce() is resumed / the suspended checkAndRedeem
CoordinatorStep ==
  \/ StartScanDone
  \/ TickScanDone
  \/ TickFetchDone
  \/ TickExecDone

RedeemerStep ==
  \/ RdSetupDone
  \/ RdPayoutDone
  \/ RdBalanceDone
  \/ RdSubmitDone
  \/ RdReceiptDone
  \/ RdWaitThrew

\* setInterval keeps firing and over and over a tick finds no spike; every
\* request on the network is answered in the end; over and over the chain
\* can be read
Fairness ==
  /\ WF_vars(TimerTick)
  /\ SF_vars(QuietTick)
  /\ WF_vars(CoordinatorStep)
  /\ WF_vars(RedeemerStep)
  /\ SF_vars(PayoutAnswered)

FairSpec == Init /\ [][NextFair]_vars /\ Fairness

\* the order executor on its own
NextExecutor ==
  \/ ExecuteTradeCall
  \/ ExInitDone
  \/ ExPostDone

SpecExecutor == Init /\ [][NextExecutor]_vars

\* the reference-price feed and the spike detector on their own
NextFeed ==
  \/ FeedClockTick
  \/ TickerMessage
  \/ CallDetect

SpecFeed == Init /\ [][NextFeed]_vars

\* the functions that keep no state, called on their own
NextCalls ==
  \/ CallScanMarkets
  \/ CallGetAiPrediction
  \/ CallGet15MinSlotTimestamps
  \/ CallAddPendingRedemption

SpecCalls == Init /\ [][NextCalls]_vars

\* ------------------------------------------------------------------- claims
\* C1: across any interleaving of coordinator ticks at most one trade is
\* successfully executed and recorded for a (BTC, windowKey) while
\* tradedWindows has not been emptied by a day change.
C1_OneTradePerWindow ==
  \A w \in DOMAIN tradesPlaced : tradesPlaced[w] <= 1

\* C2: at most one coordinator tick (the body of runOnce) is in progress at
\* any time.
C2_OneTickAtATime ==
  Cardinality({t \in TickIds : ticks[t].pc # "idle"}) <= 1

\* C3: every tick that starts while the bot is running ends by invoking
\* redeemer.checkAndRedeem(), whatever the trading branch did.
C3_TickEndsWithRedeem ==
  lastTick.ran => lastTick.redeemCalled

\* C4: within a local calendar day a recordLoss call never lowers
\* dailyLossCount, and a canTrade() call made while the calendar day is still
\* the one on which dailyLossCount reached maxDailyLosses answers
\* allowed = false.
C4_LossCountCaps ==
  [][/\ (ret'.op = "recordLoss" /\ today' = today)
          => safety'.dailyLossCount >= safety.dailyLossCount
     /\ (ret'.op = "canTrade" /\ today = safety.lastResetDate
           /\ safety.dailyLossCount >= maxDailyLosses)
          => ~ret'.allowed]_vars

\* C4 on a ledger whose day the step leaves unchanged: no step lowers
\* dailyLossCount and a recordLoss call raises it by one.
C4_WithinLedgerDay ==
  [][/\ safety'.lastResetDate = safety.lastResetDate
          => safety'.dailyLossCount >= safety.dailyLossCount
     /\ (ret'.op = "recordLoss" /\ safety'.lastResetDate = safety.lastResetDate)
          => safety'.dailyLossCount = safety.dailyLossCount + 1]_vars

\* a canTrade() call was denied for the loss count alone
C4_Witness ==
  /\ ret.op = "canTrade"
  /\ ~ret.allowed
  /\ ~safety.killSwitch
  /\ safety.dailyLoss < dailyLossLimit
  /\ safety.dailyLossCount >= maxDailyLosses

\* C5: canTrade() answers allowed = false exactly when, on the ledger as the
\* call leaves it (after its daily reset), the kill switch is on, or
\* dailyLoss >= dailyLossLimit, or dailyLossCount >= maxDailyLosses.
C5_CanTradeExactly ==
  ret.op = "canTrade" =>
    (ret.allowed <=> ~(\/ safety.killSwitch
                       \/ safety.dailyLoss >= dailyLossLimit
                       \/ safety.dailyLossCount >= maxDailyLosses))

\* a canTrade() call was denied for the dollar limit alone
C5_Witness ==
  /\ ret.op = "canTrade"
  /\ ~ret.allowed
  /\ ~safety.killSwitch
  /\ safety.dailyLoss >= dailyLossLimit
  /\ safety.dailyLossCount < maxDailyLosses

\* C6: a tick in which canTrade() is denied at the start of the tick logs a
\* safety_block activity and does not call the order executor.
C6_DeniedTickBlocks ==
  lastTick.deniedAtStart =>
    ("safety_block" \in lastTick.logged /\ ~lastTick.executorCalled)

\* a tick was denied at its start by the loss limits, the kill switch off
C6_Witness ==
  /\ lastTick.ran
  /\ lastTick.deniedAtStart
  /\ ~safety.killSwitch
  /\ isRunning

\* the entry of market c is pending and waiting, its market is resolved and
\* its end time plus two minutes has passed
C7_Due(c) ==
  \E k \in 1..Len(pendingRedemptions) :
    /\ pendingRedemptions[k].conditionId = Full(c)
    /\ pendingRedemptions[k].status = "waiting"
    /\ pendingRedemptions[k].marketEndTime # NoTime
    /\ now >= pendingRedemptions[k].marketEndTime + TwoMin
    /\ Full(c) \in resolved

\* an entry of market c is in the pending list
C7_Pending(c) ==
  \E k \in 1..Len(pendingRedemptions) :
    pendingRedemptions[k].conditionId = Full(c)

C8_LadderStopsAtSuccess ==
  \A j \in 1..Len(rd.txLog) :
    rd.txLog[j].verified = "yes" => j = Len(rd.txLog)

\* the first rung was verified as successful with the CTF rung still unused
C8_Witness ==
  \E j \in 1..Len(rd.txLog) :
    /\ rd.txLog[j].verified = "yes"
    /\ rd.txLog[j].label = "NegRiskAdapter"

\* C9: no two entries of the pending list have the same conditionId or the
\* same tokenId (an identifier that is present), and adding a trade whose
\* conditionId or tokenId is that of a pending entry leaves the list as it is.
C9_PendingIsUnique ==
  /\ \A i, j \in 1..Len(pendingRedemptions) :
       i < j =>
         /\ ~(/\ pendingRedemptions[i].conditionId # Null
              /\ pendingRedemptions[i].conditionId
                   = pendingRedemptions[j].conditionId)
         /\ ~(/\ pendingRedemptions[i].tokenId # NoToken
              /\ pendingRedemptions[i].tokenId = pendingRedemptions[j].tokenId)
  /\ \A p \in PositionSet :
       (\E k \in 1..Len(pendingRedemptions) :
          \/ (p.conditionId # Null
                /\ pendingRedemptions[k].conditionId = p.conditionId)
          \/ (p.tokenId # NoToken /\ pendingRedemptions[k].tokenId = p.tokenId))
       => addPendingRedemption(pendingRedemptions,
            [conditionId |-> p.conditionId, tokenId |-> p.tokenId,
             negRisk |-> p.negRisk, marketEndTime |-> now - TenMin]).list
            = pendingRedemptions

\* a position scan that ran to its end was given two queue candidates and the
\* pending list holds one entry: the second candidate matched the first
C9_Witness ==
  /\ ret.op = "scanPositions"
  /\ ret.allowed
  /\ ret.size = 2
  /\ Len(pendingRedemptions) = 1

\* C10 as stated: an entry reaches a terminal status only from redeeming.
C10_TerminalOnlyFromRedeeming ==
  \A j \in 1..Len(statusLog) :
    statusLog[j].to \in Terminal => statusLog[j].from = "redeeming"

\* C10, amended: the status of a pending entry changes only from waiting to
\* redeeming, no_payout or error, and from redeeming to redeemed, no_payout or
\* error; it never returns to waiting and never leaves a terminal status.
C10_StatusOrder ==
  \A j \in 1..Len(statusLog) :
    \/ /\ statusLog[j].from = "waiting"
       /\ statusLog[j].to \in {"redeeming", "no_payout", "error"}
    \/ /\ statusLog[j].from = "redeeming"
       /\ statusLog[j].to \in Terminal

\* an entry with a resolved market and no token balance went from waiting to
\* no_payout
C10_Witness ==
  \E j \in 1..Len(statusLog) :
    statusLog[j].from = "waiting" /\ statusLog[j].to = "no_payout"

\* C11: at most one invocation of checkAndRedeem is past the isChecking latch
\* at any time, and an invocation made while another is in progress returns
\* leaving the pending list, the history and the running invocation as it
\* found them.
C11_LatchIsExclusive ==
  /\ rdCalls.active <= 1
  /\ (rdCalls.active = 1) <=> isChecking
  /\ rdCalls.refused =>
       rdCalls.seen = <<pendingRedemptions, redemptionHistory, rd>>

\* POST /api/scan-positions queued an entry and its checkAndRedeem call was
\* refused at the latch while another invocation was in progress
C11_Witness ==
  /\ rdCalls.refused
  /\ ret.op = "scanPositions"
  /\ rd.pc # "idle"
  /\ Len(pendingRedemptions) = 2

\* what the invocation whose record is L did with the entry of conditionId c
C12_EventsOf(L, c) ==
  LET mine == SelectSeq(L, LAMBDA e : e.entry = c)
  IN  [j \in 1..Len(mine) |-> mine[j].event]

\* in the record L every entry whose balanceOf read answered zero got status
\* no_payout and a copy in the history straight away, and nothing else
C12_ZeroBalanceHandled(L) ==
  \A i \in 1..Len(L) :
    L[i].event = "balance_zero" =>
      /\ C12_EventsOf(L, L[i].entry) = <<"balance_zero", "no_payout", "history">>
      /\ \E j \in 1..Len(redemptionHistory) :
           /\ redemptionHistory[j].conditionId = L[i].entry
           /\ redemptionHistory[j].status = "no_payout"

\* C12: a candidate whose market is resolved and whose outcome-token balance
\* read answers zero goes directly to no_payout, a copy of it is appended to
\* the history, and no redemption transaction is submitted for it.
C12_ZeroBalanceIsNoPayout ==
  /\ C12_ZeroBalanceHandled(rd.events)
  /\ C12_ZeroBalanceHandled(lastRedeem.events)
  /\ \A i \in 1..Len(rd.events) :
       rd.events[i].event = "balance_zero" =>
         \E k \in 1..Len(pendingRedemptions) :
           /\ pendingRedemptions[k].conditionId = rd.events[i].entry
           /\ pendingRedemptions[k].status = "no_payout"

\* an invocation returned that had read a zero balance for an entry, and the
\* pending list is empty after it
C12_Witness ==
  /\ lastRedeem.returned
  /\ \E i \in 1..Len(lastRedeem.events) :
       lastRedeem.events[i].event = "balance_zero"
  /\ pendingRedemptions = <<>>

\* in the record L an entry whose payoutDenominator read answered zero or
\* failed has nothing else recorded, and it is pending with status waiting
C13_Skipped(L) ==
  \A i \in 1..Len(L) :
    L[i].event \in {"payout_zero", "payout_error"} =>
      /\ C12_EventsOf(L, L[i].entry) = <<L[i].event>>
      /\ \E k \in 1..Len(pendingRedemptions) :
           /\ pendingRedemptions[k].conditionId = L[i].entry
           /\ pendingRedemptions[k].status = "waiting"

\* C13: a candidate whose payoutDenominator read returns zero, or fails with
\* an RPC error, keeps status waiting, stays in the pending list, and gets no
\* history entry and no transaction in that invocation.
C13_UnresolvedStaysWaiting ==
  /\ C13_Skipped(rd.events)
  /\ C13_Skipped(lastRedeem.events)

\* an invocation returned in which one read failed and another answered zero
C13_Witness ==
  /\ lastRedeem.returned
  /\ \E i, j \in 1..Len(lastRedeem.events) :
       /\ lastRedeem.events[i].event = "payout_error"
       /\ lastRedeem.events[j].event = "payout_zero"

\* C14: when the CLOB rejects an order submission (non-OK response body or
\* thrown error) the executor retries it, up to 3 attempts in total, and the
\* trade record gets result failed only after the last attempt has failed.
C14_RejectedOrderIsRetried ==
  (lastTrade.returned = "record" /\ lastTrade.rejected) =>
     /\ lastTrade.result = "failed"
     /\ lastTrade.submissions = 3

\* C15: executeTrade never throws and always returns a trade record whose
\* result is pending or failed.
C15_AlwaysATradeRecord ==
  lastTrade.returned \in {"none", "record"}
    /\ (lastTrade.returned = "record" => lastTrade.result \in {"pending", "failed"})

\* the step is the one in which tick t resumes from executeTrade, and
\* executeTrade reported success
C16_TradeSucceeded(t) ==
  /\ ticks[t].pc = "exec"
  /\ ticks'[t].pc # "exec"
  /\ \/ "trade_success" \in ticks'[t].logged
     \/ lastTick'.ran /\ "trade_success" \in lastTick'.logged

\* the ledger's part of C16: the trade is counted, its size is added to
\* dailySpent and the window of the market is marked as traded
C16_LedgerUpdated(t) ==
  /\ safety'.dailyTradeCount = safety.dailyTradeCount + 1
  /\ safety'.dailySpent = safety.dailySpent + ticks[t].size
  /\ hasTraded(safety', "BTC", getWindowKey(Market(ticks[t].market).endTime))

\* the redeemer's part of C16: one entry is appended to the pending list, with
\* the market's conditionId and negRisk flag and the trade's tokenId
C16_OneEntryEnqueued(t) ==
  LET market == Market(ticks[t].market)
      n == Len(pendingRedemptions)
  IN  /\ Len(pendingRedemptions') = n + 1
      /\ SubSeq(pendingRedemptions', 1, n) = pendingRedemptions
      /\ pendingRedemptions'[n + 1].conditionId = market.id
      /\ pendingRedemptions'[n + 1].tokenId =
           (IF ticks[t].action = "BUY_YES" THEN market.yesToken ELSE market.noToken)
      /\ pendingRedemptions'[n + 1].negRisk = market.negRisk

\* C16: when executeTrade reports success in a tick, that tick increments
\* dailyTradeCount by one and dailySpent by the trade size, marks the window
\* of the market end time as traded for BTC, and enqueues one pending
\* redemption with the market's conditionId, the trade's tokenId and the
\* market's negRisk flag.
C16_SuccessIsRecorded ==
  [][\A t \in TickIds :
       C16_TradeSucceeded(t) => (C16_LedgerUpdated(t) /\ C16_OneEntryEnqueued(t))]_vars

\* C16 without the enqueue: the ledger's part of it
C16_SuccessUpdatesLedger ==
  [][\A t \in TickIds : C16_TradeSucceeded(t) => C16_LedgerUpdated(t)]_vars

\* C16 for a trade in a market that has no pending entry yet
C16_FirstTradeIsEnqueued ==
  [][\A t \in TickIds :
       (/\ C16_TradeSucceeded(t)
        /\ \A k \in 1..Len(pendingRedemptions) :
             pendingRedemptions[k].conditionId # Market(ticks[t].market).id)
         => C16_OneEntryEnqueued(t)]_vars

\* C17: after any sequence of ticker messages the reference-price history
\* holds at most MAX_HISTORY samples, they are the most recently received
\* ones in arrival order, and their timestamps are non-decreasing.
C17_HistoryIsBoundedAndOrdered ==
  LET h == feed.priceHistory
  IN  /\ Len(h) <= MAX_HISTORY
      /\ Len(h) = IF feed.received < MAX_HISTORY THEN feed.received
                  ELSE MAX_HISTORY
      /\ \A i \in 1..Len(h) : h[i].n = feed.received - Len(h) + i
      /\ \A i \in 1..(Len(h) - 1) : h[i].time <= h[i + 1].time

\* more messages than the history holds were received, minutes apart
C17_Witness ==
  /\ feed.received > MAX_HISTORY
  /\ Len(feed.priceHistory) = MAX_HISTORY
  /\ feed.priceHistory[1].time < feed.priceHistory[MAX_HISTORY].time

\* C18: whenever getPriceContext() returns available = true, a price sample
\* was appended within the 60 seconds before the call.
C18_AvailableIsFresh ==
  (lastDetect.called /\ lastDetect.ctx.available) =>
     /\ feed.priceHistory # <<>>
     /\ feed.priceHistory[Len(feed.priceHistory)].time <= feedClock
     /\ feedClock - feed.priceHistory[Len(feed.priceHistory)].time <= StaleAfter

\* the context was available with the last sample a full 60 seconds old
C18_Witness ==
  /\ lastDetect.called
  /\ lastDetect.ctx.available
  /\ feedClock - feed.lastUpdateTime = StaleAfter

\* window w of a price context qualifies: its change in dollars is at least
\* 30 in size, and that size over the window's minutes is at least 15
C19_Qualifies(w) ==
  /\ w.data.present
  /\ w.data.dollars.kind = "num"
  /\ \/ w.data.dollars.v >= SPIKE_THRESHOLD
     \/ w.data.dollars.v <= -SPIKE_THRESHOLD
  /\ \/ w.data.dollars.v >= MIN_SPIKE_SPEED * w.minutes
     \/ w.data.dollars.v <= -(MIN_SPIKE_SPEED * w.minutes)

\* move of window a over its minutes is at most that of window b
C19_NotFaster(a, b) ==
  absMoveD(a) * b.minutes <= absMoveD(b) * a.minutes

\* C19: with threshold 30 and minimum speed 15, detect() reports
\* detected = true if and only if the price context is available and some
\* window of 60, 180 or 300 s qualifies; the window reported is a qualifying
\* one that no qualifying window is faster than.
C19_DetectsExactlySpikes ==
  lastDetect.called =>
    LET ws == windows(lastDetect.ctx)
        qualifying == {k \in 1..Len(ws) : C19_Qualifies(ws[k])}
    IN  /\ lastDetect.result.detected
             <=> (lastDetect.ctx.available /\ qualifying # {})
        /\ lastDetect.result.detected =>
             \E k \in qualifying :
               /\ ws[k].label = lastDetect.result.window
               /\ \A j \in qualifying : C19_NotFaster(ws[j], ws[k])

\* a spike was reported for the 3-minute window while the 5-minute window
\* qualified too
C19_Witness ==
  /\ lastDetect.called
  /\ lastDetect.result.detected
  /\ lastDetect.result.window = "3m"
  /\ C19_Qualifies(windows(lastDetect.ctx)[3])

\* C20: a runOnce invocation that has fetched the market data calls the
\* executor only if the mid of the side its spike action chose is present and
\* at most 0.45; a mid of exactly 0.45 passes the gate (neither price_block
\* nor the no-entry-price skip), and a mid above 0.45 makes the invocation
\* return with a price_block activity and without an executor call.
C20_EntryPriceGate ==
  lastGate.checked =>
    LET tk == ticks[lastGate.tick]
        p  == lastGate.entryPrice
    IN  /\ tk.executorCalled => (p # 0 /\ p <= MAX_ENTRY_PRICE)
        /\ p = MAX_ENTRY_PRICE =>
             \/ tk.pc = "exec" /\ tk.executorCalled
             \/ lastTick.ran /\ lastTick.logged \cap {"price_block", "skip"} = {}
        /\ p > MAX_ENTRY_PRICE =>
             /\ lastTick.ran
             /\ "price_block" \in lastTick.logged
             /\ ~lastTick.executorCalled
             /\ tk.pc = "idle"

\* the chosen side's mid was exactly 0.45 and the executor was called
C20_Witness ==
  /\ lastGate.checked
  /\ lastGate.entryPrice = MAX_ENTRY_PRICE
  /\ ticks[lastGate.tick].pc = "exec"
  /\ ticks[lastGate.tick].executorCalled

\* the candidates of a scanMarkets call with more than 1 minute left
C21_Eligible == {k \in 1..Len(lastCall.input) : lastCall.input[k].minutesLeft > 1}

\* C21: scanMarkets returns zero or one record; among the surviving
\* candidates it keeps one with the smallest minutesLeft greater than 1 and
\* returns it exactly when that minutesLeft lies in [3, 12]; so whenever some
\* surviving candidate has minutesLeft in [3, 12] a record is returned.
C21_KeepsSoonestMarket ==
  lastCall.op = "scanMarkets" =>
    LET in == lastCall.input
        out == lastCall.output
        soonest == {k \in C21_Eligible :
                      \A j \in C21_Eligible : in[k].minutesLeft <= in[j].minutesLeft}
        inRange(k) == in[k].minutesLeft >= 3 /\ in[k].minutesLeft <= 12
    IN  /\ Len(out) <= 1
        /\ out # <<>> <=> \E k \in soonest : inRange(k)
        /\ out # <<>> => \E k \in soonest : out[1].minutesLeft = in[k].minutesLeft
        /\ (\E k \in 1..Len(in) : inRange(k)) => out # <<>>

\* what does hold of scanMarkets: zero or one record, a record returned is a
\* candidate with 3 to 12 minutes left, and no candidate with more than 1
\* minute left has fewer minutes left than it
C21_ReturnedMarketIsInRange ==
  lastCall.op = "scanMarkets" =>
    LET in == lastCall.input
        out == lastCall.output
    IN  /\ Len(out) <= 1
        /\ out # <<>> =>
             /\ out[1].minutesLeft >= 3 /\ out[1].minutesLeft <= 12
             /\ in[out[1].slot] = out[1]
             /\ \A k \in C21_Eligible : out[1].minutesLeft <= in[k].minutesLeft

C23_DecisionIsNormalized ==
  lastCall.op = "getAiPrediction" =>
    /\ lastCall.output.action \in {"BUY_YES", "BUY_NO", "SKIP"}
    /\ lastCall.output.confidence \in {"LOW", "MEDIUM", "HIGH"}
    /\ lastCall.output.confidence = "LOW" => lastCall.output.action = "SKIP"
    /\ lastCall.input.kind # "decision" => lastCall.output.action = "SKIP"

\* the model answered BUY_UP with a confidence the code does not know, and
\* the decision returned is SKIP with confidence LOW
C23_Witness ==
  /\ lastCall.op = "getAiPrediction"
  /\ lastCall.input.kind = "decision"
  /\ lastCall.input.action = "BUY_UP"
  /\ lastCall.input.confidence = "low"
  /\ lastCall.output = [action |-> "SKIP", confidence |-> "LOW"]

\* C24: isRunning goes from true to false, and the interval timer is
\* cleared, only in a step of POST /api/bot/stop or of a POST /api/killswitch
\* that switches the kill switch on; no step of a tick or of the redemption
\* engine, whatever fails in it, does so.
C24_OnlyStopStops ==
  [][(\/ isRunning /\ ~isRunning'
      \/ loopInterval /\ ~loopInterval')
       => \/ ret'.op = "bot_stop"
          \/ ret'.op = "killswitch" /\ ~safety.killSwitch /\ safety'.killSwitch]_vars

\* the kill switch was switched on while a runOnce invocation was in flight:
\* the bot is stopped
C24_Witness ==
  /\ ret.op = "killswitch"
  /\ safety.killSwitch
  /\ ~isRunning
  /\ ~loopInterval
  /\ \E t \in TickIds : ticks[t].pc # "idle"

\* a tick that canTrade() denied (it logs "Bot stopped") has returned and the
\* bot is still running
C24_StillRunningAfterDenial ==
  /\ lastTick.ran
  /\ lastTick.deniedAtStart
  /\ isRunning
  /\ loopInterval

\* entries a and b are the same trade
C25_Same(a, b) == a.conditionId = b.conditionId /\ a.tokenId = b.tokenId

\* C25: every entry that a step removes from the pending list (it is removed
\* with a terminal status) has a copy with a terminal status in the
\* redemption history after that step.
C25_RemovedEntriesAreInHistory ==
  [][\A k \in 1..Len(pendingRedemptions) :
       (\A j \in 1..Len(pendingRedemptions') :
           ~C25_Same(pendingRedemptions'[j], pendingRedemptions[k]))
       => \E j \in 1..Len(redemptionHistory') :
            /\ C25_Same(redemptionHistory'[j], pendingRedemptions[k])
            /\ redemptionHistory'[j].status \in Terminal]_vars

\* the same for the entries that end as redeemed or no_payout, or as error
\* after the ladder: each has its copy in the history when the invocation
\* that made it terminal returns
C25_SettledEntriesAreInHistory ==
  lastRedeem.returned =>
    \A k \in 1..Len(lastRedeem.events) :
      LET e == lastRedeem.events[k]
      IN  (\/ e.event \in {"redeemed", "no_payout"}
           \/ e.event = "error" /\ formatConditionId(e.entry) # Null)
          => \E j \in 1..Len(lastRedeem.events) :
               /\ lastRedeem.events[j].entry = e.entry
               /\ lastRedeem.events[j].event = "history"

\* C26: the redemption history holds at most 20 entries (HistoryShown here)
\* after any number of redemptions, and the history getRedemptionStatus
\* reports consists of the entries that became terminal most recently.
C26_HistoryIsARing ==
  /\ Len(redemptionHistory) <= HistoryShown
  /\ lastCall.op = "getRedemptionStatus" =>
       LET h == redemptionHistory
           n == IF Len(h) < HistoryShown THEN Len(h) ELSE HistoryShown
       IN  /\ Len(lastCall.output) = n
           /\ \A k \in 1..n :
                \E j \in (Len(h) - n + 1)..Len(h) : lastCall.output[k] = h[j]

\* what does hold: the history getRedemptionStatus reports has at most 20
\* entries, and they are the entries that became terminal first
C26_ReportedHistoryIsBounded ==
  lastCall.op = "getRedemptionStatus" =>
    /\ Len(lastCall.output) <= HistoryShown
    /\ \A k \in 1..Len(lastCall.output) : lastCall.output[k] = redemptionHistory[k]

\* what the checkAndRedeem invocation in progress, or else the one that
\* returned in the step just taken, did with its entries
C27_Events == IF rd.pc # "idle" THEN rd.events ELSE lastRedeem.events

\* C27: when a proxy wallet is used and the receipt of the neg-risk attempt
\* carries an ExecutionFailure log of the proxy, the attempt counts as failed
\* (the entry is not redeemed by it and stays redeeming), the invocation goes
\* on to the plain conditional-tokens attempt, and if that attempt's
\* transaction is sent and its receipt verifies, the entry becomes redeemed
\* and is copied to the history.
C27_FailureLogFallsBackToCTF ==
  \A k \in 1..Len(C27_Events) :
    C27_Events[k].event = "neg_risk_failure_log" =>
      LET E == C27_Events
          is(j, event) == /\ j <= Len(E)
                          /\ E[j].event = event
                          /\ E[j].entry = E[k].entry
      IN  /\ k = Len(E) =>
               /\ rd.pc = "submit"
               /\ rd.attempts[rd.a] = "CTF"
               /\ isChecking
               /\ pendingRedemptions[rd.ready[rd.i]].conditionId = E[k].entry
               /\ pendingRedemptions[rd.ready[rd.i]].status = "redeeming"
          /\ k < Len(E) => \/ is(k + 1, "tx")
                            \/ is(k + 1, "error")
                            \/ is(k + 1, "no_payout")
          /\ (is(k + 1, "tx") /\ is(k + 2, "receipt_ok")) =>
               (is(k + 3, "redeemed") /\ is(k + 4, "history"))

\* an invocation has returned in which the neg-risk receipt carried the
\* failure log and the entry was then redeemed by the CTF attempt
C27_Witness ==
  /\ lastRedeem.returned
  /\ \E k \in 1..Len(lastRedeem.events) :
       /\ lastRedeem.events[k].event = "neg_risk_failure_log"
       /\ k + 4 <= Len(lastRedeem.events)
       /\ lastRedeem.events[k + 1].event = "tx"
       /\ lastRedeem.events[k + 2].event = "receipt_ok"
       /\ lastRedeem.events[k + 3].event = "redeemed"
       /\ \E j \in 1..Len(redemptionHistory) :
            /\ redemptionHistory[j].conditionId = lastRedeem.events[k].entry
            /\ redemptionHistory[j].status = "redeemed"

\* C28: an RPC error raised while an entry is being processed (balance read,
\* gas-price or nonce read, transaction submission, receipt wait) causes no
\* status transition: when the handler that met the error has run to its
\* next suspension, the entry is in the pending list, waiting.
C28_RpcErrorLeavesWaiting ==
  \A k \in 1..Len(lastRedeem.rpcError) :
    /\ \E i \in 1..Len(pendingRedemptions) :
          /\ pendingRedemptions[i].conditionId = lastRedeem.rpcError[k]
          /\ pendingRedemptions[i].status = "waiting"

\* what does hold: an RPC error of the payoutDenominator read leaves the
\* entry waiting in the pending list, with no status given after it
C28_PayoutReadErrorLeavesWaiting ==
  \A k \in 1..Len(C27_Events) :
    C27_Events[k].event = "payout_error" =>
      /\ \A j \in (k + 1)..Len(C27_Events) :
            C27_Events[j].entry = C27_Events[k].entry
              => C27_Events[j].event \notin Terminal \cup {"redeeming"}
      /\ \E i \in 1..Len(pendingRedemptions) :
            /\ pendingRedemptions[i].conditionId = C27_Events[k].entry
            /\ pendingRedemptions[i].status = "waiting"

\* C29: a public operation of the safety ledger applies the daily reset
\* before it reads or updates the counters: after the call the ledger is on
\* the current local day, and the loss or the win a recordLoss or recordWin
\* call recorded is in that day's counters.
C29_ResetComesFirst ==
  /\ ret.op \in {"canTrade", "getTradeSize", "recordLoss", "recordWin"}
       => safety.lastResetDate = today
  /\ ret.op = "recordLoss" => safety.dailyLossCount >= 1
  /\ ret.op = "recordWin" => safety.dailyWinCount >= 1

\* what does hold: canTrade and getTradeSize leave the ledger on the current
\* local day, and so does recordLoss (through the canTrade it calls last)
C29_ReadersResetFirst ==
  ret.op \in {"canTrade", "getTradeSize", "recordLoss"}
    => safety.lastResetDate = today

\* the changes of a price context with the lengths of their windows in
\* minutes
C30_Changes(ctx) ==
  << [minutes |-> 1, data |-> ctx.change1m], [minutes |-> 3, data |-> ctx.change3m],
     [minutes |-> 5, data |-> ctx.change5m], [minutes |-> 10, data |-> ctx.change10m] >>

\* the stored samples that are at least `minutes` old at the time of the call
C30_Older(minutes) ==
  {i \in 1..Len(feed.priceHistory) : feed.priceHistory[i].time <= feedClock - minutes}

\* the change of window c is the current price minus the price of stored
\* sample i, as the context reports it (to two decimals)
C30_IsChangeSince(c, i) ==
  /\ c.data.present
  /\ c.data.dollars = toFixed2(minus(feed.latestPrice, feed.priceHistory[i].price))

\* C30 as stated: for each window W of 60, 180, 300 and 600 s, change[W] is
\* the current price minus the price of the oldest stored sample whose time
\* is <= now - W (a sample exactly W old counts), and is null when no stored
\* sample is that old.
C30_ChangeSinceOldest ==
  (lastDetect.called /\ lastDetect.ctx.available) =>
    \A k \in 1..4 :
      LET c == C30_Changes(lastDetect.ctx)[k]
          older == C30_Older(c.minutes)
      IN  IF older = {} THEN ~c.data.present
          ELSE \E i \in older : /\ \A j \in older : i <= j
                                 /\ C30_IsChangeSince(c, i)

\* C30, amended: change[W] is the current price minus the price of the most
\* recently received stored sample whose time is <= now - W (a sample
\* exactly W old counts), and is null when no stored sample is that old.
C30_ChangeSinceLatestOlder ==
  (lastDetect.called /\ lastDetect.ctx.available) =>
    \A k \in 1..4 :
      LET c == C30_Changes(lastDetect.ctx)[k]
          older == C30_Older(c.minutes)
      IN  IF older = {} THEN ~c.data.present
          ELSE \E i \in older : /\ \A j \in older : j <= i
                                 /\ C30_IsChangeSince(c, i)

\* a context was built with a 10-minute change while two stored samples
\* with different prices were at least 3 minutes old, the later of them
\* exactly 3 minutes old
C30_Witness ==
  /\ lastDetect.called
  /\ lastDetect.ctx.available
  /\ lastDetect.ctx.change10m.present
  /\ \E i \in C30_Older(3), j \in C30_Older(3) :
       /\ i < j
       /\ \A n \in C30_Older(3) : n <= j
       /\ feed.priceHistory[j].time = feedClock - 3
       /\ feed.priceHistory[i].price.kind = "num"
       /\ feed.priceHistory[j].price.kind = "num"
       /\ feed.priceHistory[i].price # feed.priceHistory[j].price

\* C31: at every wall-clock time get15MinSlotTimestamps returns five
\* timestamps, the start of the current 15-minute UTC slot plus offset * 15
\* minutes for the offsets -2, -1, 0, 1, 2.
C31_SlotTimestamps ==
  lastCall.op = "get15MinSlotTimestamps" =>
    LET t == lastCall.input[1]
    IN  /\ Len(lastCall.output) = 5
        /\ \A k \in 1..5 :
              lastCall.output[k] = (t \div 15) * 15 + (k - 3) * 15

\* what does hold: the timestamps are those at every time whose slots are
\* all at or after the midnight that began the UTC day (from 00:30 on), the
\* 30 minutes before the next midnight included
C31_SlotTimestampsFromHalfPastMidnight ==
  lastCall.op = "get15MinSlotTimestamps" =>
    LET t == lastCall.input[1]
    IN  t % 1440 >= 30 =>
          \A k \in 1..5 :
            lastCall.output[k] = (t \div 15) * 15 + (k - 3) * 15

\* C32: when the scanExistingPositions call of start() has completed without
\* error, hasScanned() is true, whether or not a position was found (so that
\* a later start() does not scan again).
C32_CompletedScanSetsFlag ==
  (ret.op = "scanExistingPositions" /\ ret.allowed) => hasScannedOnStartup

\* what does hold: hasScanned() is true after a scan that found a position
\* on a wallet and completed without error
C32_ScanWithPositionsSetsFlag ==
  (ret.op = "scanExistingPositions" /\ ret.allowed /\ ret.size > 0)
    => hasScannedOnStartup

\* C33: whenever no checkAndRedeem invocation is in progress, isChecking is
\* false and every entry of the pending list has status waiting, also after
\* an invocation that returned early or ended with an exception.
C33_IdleListIsWaiting ==
  rd.pc = "idle" =>
    /\ ~isChecking
    /\ rdCalls.active = 0
    /\ \A i \in 1..Len(pendingRedemptions) :
          pendingRedemptions[i].status = "waiting"

\* an invocation has returned after its setup threw, with an entry pending
C33_Witness ==
  /\ lastRedeem.returned
  /\ \E k \in 1..Len(lastRedeem.events) : lastRedeem.events[k].event = "threw"
  /\ rd.pc = "idle"
  /\ pendingRedemptions # <<>>

\* an invocation has returned that gave an entry a terminal status, and
\* another entry is still pending
C33_SettledAndPending ==
  /\ lastRedeem.returned
  /\ \E k \in 1..Len(lastRedeem.events) : lastRedeem.events[k].event \in Terminal
  /\ rd.pc = "idle"
  /\ pendingRedemptions # <<>>

\* C34: at most one scan interval timer is live at any time, under every
\* interleaving of start(), stop() and kill-switch toggles, a stop() that
\* arrives while start() awaits the startup position scan included; a
\* stopped bot has no live timer.
C34_OneTimer ==
  /\ timers <= 1
  /\ (~isRunning /\ starter = "idle") => timers = 0

\* what does hold: the timer loopInterval refers to is live, and it is the
\* only one as long as no stop() has arrived while a start() was suspended
C34_HandleIsLive == loopInterval => timers >= 1

\* C35: while the kill switch is on no tick begins a call to executeTrade: a
\* tick that has just passed the entry-price gate and called executeTrade did
\* so with the kill switch off, also when the switch was operated while the
\* tick was suspended on the market scan or the data fetch.
C35_NoTradeUnderKillSwitch ==
  (/\ lastGate.checked
   /\ ticks[lastGate.tick].pc = "exec"
   /\ ticks[lastGate.tick].executorCalled) => ~safety.killSwitch

\* a tick that passed canTrade() at its top and the entry-price gate has
\* returned at the second canTrade(), without calling executeTrade: the kill
\* switch was switched on while it was suspended
C35_Witness ==
  /\ safety.killSwitch
  /\ lastGate.checked
  /\ lastGate.entryPrice > 0
  /\ lastGate.entryPrice <= MAX_ENTRY_PRICE
  /\ lastTick.ran
  /\ ~lastTick.deniedAtStart
  /\ "safety_block" \in lastTick.logged
  /\ ~lastTick.executorCalled

\* C36: after stop() no call to executeTrade begins until the next start(): a
\* tick that has just passed the entry-price gate and called executeTrade did
\* so on a running bot, also when it was suspended at the moment of the stop.
C36_NoTradeAfterStop ==
  (/\ lastGate.checked
   /\ ticks[lastGate.tick].pc = "exec"
   /\ ticks[lastGate.tick].executorCalled) => isRunning

\* C37: once the entry of a conditionId has reached a terminal status and
\* left the pending list, no addPendingRedemption makes a pending entry for
\* that conditionId again: no pending entry that is waiting or redeeming has
\* the conditionId of a history entry, and no two history entries have the
\* same conditionId.
C37_SettledOnce ==
  /\ \A i \in 1..Len(pendingRedemptions), j \in 1..Len(redemptionHistory) :
       (/\ pendingRedemptions[i].conditionId # Null
        /\ pendingRedemptions[i].status \notin Terminal)
         => pendingRedemptions[i].conditionId # redemptionHistory[j].conditionId
  /\ \A j, k \in 1..Len(redemptionHistory) :
       (j < k /\ redemptionHistory[j].conditionId # Null)
         => redemptionHistory[j].conditionId # redemptionHistory[k].conditionId

\* the position was settled twice: two history entries have its conditionId
C37_SettledTwice ==
  \E j, k \in 1..Len(redemptionHistory) :
    /\ j < k
    /\ redemptionHistory[j].conditionId # Null
    /\ redemptionHistory[j].conditionId = redemptionHistory[k].conditionId

\* the step is the one in which tick t resumes from executeTrade, and
\* executeTrade returned a failed trade or null
C38_TradeFailed(t) ==
  /\ ticks[t].pc = "exec"
  /\ ticks'[t].pc # "exec"
  /\ "trade_success" \notin ticks'[t].logged
  /\ ~(lastTick'.ran /\ "trade_success" \in lastTick'.logged)

\* C38: when executeTrade returns a failed trade or null, the tick leaves
\* dailyTradeCount, dailySpent, tradedWindows and the pending list as they
\* were, so the window is as eligible for a trade as it was before.
C38_FailedTradeChangesNothing ==
  [][\A t \in TickIds :
       C38_TradeFailed(t) =>
         /\ safety'.dailyTradeCount = safety.dailyTradeCount
         /\ safety'.dailySpent = safety.dailySpent
         /\ safety'.tradedWindows = safety.tradedWindows
         /\ pendingRedemptions' = pendingRedemptions]_vars

\* a tick that called executeTrade has returned without a trade placed, and
\* nothing is counted, marked or pending
C38_Witness ==
  /\ lastTick.ran
  /\ lastTick.executorCalled
  /\ "trade_success" \notin lastTick.logged
  /\ safety.dailyTradeCount = 0
  /\ safety.dailySpent = 0
  /\ safety.tradedWindows = {}
  /\ pendingRedemptions = <<>>

\* C39: a trade is reported as successful (success true, result pending) only
\* when the response of the CLOB carried an orderID.
C39_SuccessNeedsOrderId ==
  (lastTrade.returned = "record" /\ lastTrade.success) =>
     /\ lastTrade.result = "pending"
     /\ lastTrade.orderID

\* what does hold: a response that carries an orderID gives a successful
\* trade with result pending, and a trade is successful exactly when its
\* result is pending
C39_OrderIdGivesSuccess ==
  lastTrade.returned = "record" =>
     /\ lastTrade.orderID => lastTrade.success
     /\ lastTrade.success <=> lastTrade.result = "pending"

\* what an addPendingRedemption call did to the list: nothing, or it
\* appended one waiting entry
C40_ListEffect ==
  LET before == lastCall.input[1]
      after == lastCall.output[1]
  IN  \/ after = before
      \/ /\ Len(after) = Len(before) + 1
         /\ SubSeq(after, 1, Len(before)) = before
         /\ after[Len(after)].status = "waiting"

\* C40: addPendingRedemption never throws: for any trade it appends exactly
\* one waiting entry and returns normally, or leaves the pending list as it
\* is, also for a trade that has a tokenId and no conditionId.
C40_NeverThrows ==
  lastCall.op = "addPendingRedemption" =>
    /\ ~lastCall.output[2]
    /\ C40_ListEffect

\* what does hold: the list is left as it is or gets one waiting entry, and
\* the call returns normally for a trade that has a conditionId, for one
\* that has no identifier and for one that matches a pending entry
C40_ThrowsOnlyWithoutConditionId ==
  lastCall.op = "addPendingRedemption" =>
    /\ C40_ListEffect
    /\ lastCall.output[2] =>
         /\ lastCall.input[2].conditionId = Null
         /\ lastCall.input[2].tokenId # NoToken
         /\ lastCall.output[1] # lastCall.input[1]
====
